---- MODULE Spec2Model ----
(***************************************************************************)
(* "Battle of Dimensions" - Epic Tactics engine                             *)
(* (src/02_battle_dimensions/epic_tactics.py).                              *)
(*                                                                         *)
(* One state per phase boundary of play_one_game, plus the batch driver     *)
(* run_simulations around it.  Lists are sequences (index 1 is Python's     *)
(* index 0); players, zones and spiral positions keep Python's 0-based      *)
(* indices because the code does arithmetic on them.                        *)
(***************************************************************************)
EXTENDS Integers, Sequences, FiniteSets, TLC

VARIABLES
    num_players,        \* play_one_game argument
    players,            \* players[i]: faction (entity) of player i
    deck,               \* list of cards, drawn from the end (deck.pop())
    delete_pile,        \* discard pile
    hands,              \* hands[i]: Counter, as its ordered list of (card, cnt)
    areas,              \* areas[i]: AreaState of player i's dimension
    spiral,             \* spiral[0..4]: domination cycle
    turn_q,             \* deque of player numbers
    captain_avail_idx,  \* index of red's player while the captain is in reserve
    captain_loc,        \* zone of the deployed captain, or None
    final_enqueued,
    final_player,
    pc,                 \* next phase of play_one_game, or "done"
    winner,             \* play_one_game's result
    runs,               \* run_simulations argument
    games_done,         \* completed iterations of run_simulations' loop
    wins,
    participates,
    probs,              \* result of run_simulations: f -> <<numerator, denominator>>;
                        \* <<>> until run_simulations returns
    hist                \* history: what happened, for stating the properties

gameVars == <<num_players, players, deck, delete_pile, hands, areas, spiral, turn_q,
              captain_avail_idx, captain_loc, final_enqueued, final_player, pc, winner>>
driverVars == <<runs, games_done, wins, participates, probs>>
vars == <<gameVars, driverVars, hist>>

---------------------------------------------------------------------------
(* Constants / parameters *)

FRACTIONS == <<"red", "green", "yellow", "blue", "purple">>
BLUE_VALUES == <<2, 3, 5, 7, 11, 13, 17, 17, 19, 23, 29>>
\* f"blue#{v}" for the values of BLUE_VALUES, in the same order
BLUE_CARDS == <<"blue#2", "blue#3", "blue#5", "blue#7", "blue#11", "blue#13",
                "blue#17", "blue#17", "blue#19", "blue#23", "blue#29">>
ANOMALIES == <<"anom_quantum_entanglement", "anom_wormhole", "anom_black_hole",
               "anom_big_bang", "anom_time_loop">>
TARGET_HAND == 4
GREEN_NEAR_WIN == 4
BLUE_DANGER_RANGE == 35..41
BLUE_GOAL == 42
GREEN_INSTANT == 5
YELLOW_INSTANT == 5
CARDS_PER_COLOR == 11
\* the values of num_players: at least two players, at most one per faction
PlayerCounts == 2..Len(FRACTIONS)

\* Python's None for an Optional[int] / an Optional[str]
None == -1
NoneStr == "None"

PlainColors == <<"red", "green", "yellow", "purple">>
PlainSet == {"red", "green", "yellow", "purple"}
Factions == {FRACTIONS[k] : k \in 1..Len(FRACTIONS)}
AnomalySet == {ANOMALIES[k] : k \in 1..Len(ANOMALIES)}
BlueCardSet == {BLUE_CARDS[k] : k \in 1..Len(BLUE_CARDS)}

---------------------------------------------------------------------------
(* Bounds of the model *)

\* outcomes of the generator's initial draws (assignment, deck order, spiral)
NumSeeds == 6
\* outcomes of the reshuffle in anom_big_bang
NumShuffles == 2
\* number of games of run_simulations
MaxRuns == 2
\* outcomes of the generator's initial draws in the batch specification, and the
\* spirals of single calls of score_game
NumBatchSeeds == 2
\* zones of the board a single call is made on
UnitZones == 2
\* cards and alliance tokens on that board
UnitCards == 2
\* cards and markers of the discard pile a single call is made on
UnitPile == 3

---------------------------------------------------------------------------
(* Small list helpers *)

RECURSIVE SumSeq(_)
SumSeq(s) == IF s = <<>> THEN 0 ELSE Head(s) + SumSeq(Tail(s))

Range(s) == {s[k] : k \in 1..Len(s)}

Last(s) == s[Len(s)]
ButLast(s) == SubSeq(s, 1, Len(s) - 1)

RECURSIVE Repeat(_, _)
Repeat(x, k) == IF k <= 0 THEN <<>> ELSE <<x>> \o Repeat(x, k - 1)

\* list.remove(v): drop the first occurrence
RemoveFirst(s, v) ==
    LET k == CHOOSE j \in 1..Len(s) : s[j] = v /\ \A m \in 1..(j - 1) : s[m] # v
    IN SubSeq(s, 1, k - 1) \o SubSeq(s, k + 1, Len(s))

\* smallest member of a non-empty set of integers (next(i for i in ... if ...))
MinOf(S) == CHOOSE x \in S : \A y \in S : x <= y

---------------------------------------------------------------------------
(* Cards *)

is_blue(card) == card \in BlueCardSet

card_color(card) ==
    IF card \in PlainSet THEN card
    ELSE IF is_blue(card) THEN "blue"
    ELSE NoneStr

blue_value(card) == BLUE_VALUES[CHOOSE k \in 1..Len(BLUE_CARDS) : BLUE_CARDS[k] = card]

\* f"blue#{v}"
blue_card(v) == BLUE_CARDS[CHOOSE k \in 1..Len(BLUE_VALUES) : BLUE_VALUES[k] = v]

---------------------------------------------------------------------------
(* Hand = collections.Counter: an insertion-ordered mapping card -> count;  *)
(* entries are deleted when their count reaches 0.                          *)

HandKeys(h) == {h[k].card : k \in 1..Len(h)}

HandGet(h, c) ==
    IF c \in HandKeys(h) THEN h[CHOOSE k \in 1..Len(h) : h[k].card = c].cnt ELSE 0

RECURSIVE HandSize(_)
HandSize(h) == IF h = <<>> THEN 0 ELSE Head(h).cnt + HandSize(Tail(h))

\* hand[c] += 1
HandAdd(h, c) ==
    IF c \in HandKeys(h)
    THEN [k \in 1..Len(h) |-> IF h[k].card = c THEN [card |-> c, cnt |-> h[k].cnt + 1] ELSE h[k]]
    ELSE Append(h, [card |-> c, cnt |-> 1])

\* hand[c] -= 1; if hand[c] <= 0: del hand[c]
HandTake(h, c) ==
    LET k == CHOOSE j \in 1..Len(h) : h[j].card = c
    IN IF h[k].cnt - 1 <= 0
       THEN SubSeq(h, 1, k - 1) \o SubSeq(h, k + 1, Len(h))
       ELSE [j \in 1..Len(h) |-> IF j = k THEN [card |-> c, cnt |-> h[k].cnt - 1] ELSE h[j]]

\* the values of the blue cards of a hand, in the hand's order, with multiplicity
RECURSIVE HandBlueVals(_)
HandBlueVals(h) ==
    IF h = <<>> THEN <<>>
    ELSE (IF is_blue(Head(h).card) /\ Head(h).cnt > 0
          THEN Repeat(blue_value(Head(h).card), Head(h).cnt) ELSE <<>>)
         \o HandBlueVals(Tail(h))

\* first card of the hand (in its order) that is a faction card, or NoneStr
RECURSIVE FirstFactionCard(_)
FirstFactionCard(h) ==
    IF h = <<>> THEN NoneStr
    ELSE IF (is_blue(Head(h).card) \/ Head(h).card \in PlainSet) /\ Head(h).cnt > 0
         THEN Head(h).card
         ELSE FirstFactionCard(Tail(h))

\* first blue card of the hand (in its order), or NoneStr
RECURSIVE FirstBlueCard(_)
FirstBlueCard(h) ==
    IF h = <<>> THEN NoneStr
    ELSE IF is_blue(Head(h).card) /\ Head(h).cnt > 0 THEN Head(h).card
         ELSE FirstBlueCard(Tail(h))

HandAnoms(h) == {c \in AnomalySet : HandGet(h, c) > 0}

---------------------------------------------------------------------------
(* AreaState *)

EmptyArea == [counts |-> [c \in PlainSet |-> 0], blue_values |-> <<>>, auras |-> 0]

Zones == 0..(num_players - 1)

\* place_card_in_area
place_card_in_area(area, card) ==
    LET col == card_color(card) IN
    IF col = NoneStr THEN area
    ELSE IF col = "blue"
         THEN [area EXCEPT !.blue_values = Append(@, blue_value(card))]
         ELSE [area EXCEPT !.counts[col] = @ + 1]

\* remove_one_from_area: the area afterwards
remove_one_from_area(area, color) ==
    IF color = "blue"
    THEN IF area.blue_values # <<>>
         THEN [area EXCEPT !.blue_values = ButLast(@)]
         ELSE area
    ELSE IF area.counts[color] > 0
         THEN [area EXCEPT !.counts[color] = @ - 1]
         ELSE area

\* remove_one_from_area: the card it returns ("what was removed"), or NoneStr
removed_card(area, color) ==
    IF color = "blue"
    THEN IF area.blue_values # <<>> THEN blue_card(Last(area.blue_values)) ELSE NoneStr
    ELSE IF area.counts[color] > 0 THEN color ELSE NoneStr

area_color_size(area, color, captain_here) ==
    IF color = "blue" THEN Len(area.blue_values)
    ELSE IF color = "red" THEN area.counts["red"] + (IF captain_here THEN 1 ELSE 0)
    ELSE area.counts[color]

---------------------------------------------------------------------------
(* Spiral *)

\* idx = {c: i for i, c in enumerate(spiral)}: the last position holding c
spiral_idx(c, sp) ==
    LET at == {k \in 1..Len(sp) : sp[k] = c}
    IN IF at = {} THEN None ELSE (CHOOSE k \in at : \A m \in at : m <= k) - 1

\* a colour dominates the next two colours of the spiral
beats_next_two(a, b, sp) ==
    \/ (spiral_idx(a, sp) + 1) % Len(sp) = spiral_idx(b, sp)
    \/ (spiral_idx(a, sp) + 2) % Len(sp) = spiral_idx(b, sp)

beats(a, b, sp) == (spiral_idx(a, sp) + 1) % Len(sp) = spiral_idx(b, sp)

\* spiral[i] = spiral[j]; spiral[j] = spiral[i]: the second assignment reads
\* the value the first one wrote
swap_positions_in_sequence(sp, i, j) == [sp EXCEPT ![i + 1] = sp[j + 1]]

\* spiral[i], spiral[j] = spiral[j], spiral[i]   (i, j: 0-based positions)
swap_positions(sp, i, j) == [sp EXCEPT ![i + 1] = sp[j + 1], ![j + 1] = sp[i + 1]]

---------------------------------------------------------------------------
(* Instant wins, clash winners, tie-break *)

check_green_instant(ar) ==
    \E i \in DOMAIN ar : ar[i].counts["green"] >= GREEN_INSTANT

RECURSIVE SumYellow(_, _)
SumYellow(ar, S) ==
    IF S = {} THEN 0
    ELSE LET i == CHOOSE x \in S : TRUE
         IN ar[i].counts["yellow"] + SumYellow(ar, S \ {i})

\* yellow in every zone is taken to be enough
check_yellow_instant_coverage(ar) ==
    IF DOMAIN ar = {} THEN FALSE
    ELSE IF \E i \in DOMAIN ar : ar[i].counts["yellow"] < 1 THEN FALSE
    ELSE TRUE

check_yellow_instant(ar) ==
    IF DOMAIN ar = {} THEN FALSE
    ELSE IF \E i \in DOMAIN ar : ar[i].counts["yellow"] < 1 THEN FALSE
    ELSE SumYellow(ar, DOMAIN ar) >= YELLOW_INSTANT

check_blue_instant(ar) ==
    \E i \in DOMAIN ar :
        ar[i].blue_values # <<>> /\ SumSeq(ar[i].blue_values) = BLUE_GOAL

\* the three tests in the opposite order
check_instants_blue_first(ar) ==
    IF check_blue_instant(ar) THEN "blue"
    ELSE IF check_yellow_instant(ar) THEN "yellow"
    ELSE IF check_green_instant(ar) THEN "green"
    ELSE NoneStr

\* play_one_game.check_instants
check_instants(ar) ==
    IF check_green_instant(ar) THEN "green"
    ELSE IF check_yellow_instant(ar) THEN "yellow"
    ELSE IF check_blue_instant(ar) THEN "blue"
    ELSE NoneStr

\* a colour wins as soon as it dominates another revealed colour
first_wins_among_beating_some(uniq, sp) ==
    IF Cardinality(uniq) = 1 THEN uniq
    ELSE {c \in uniq : \E d \in uniq \ {c} : beats(c, d, sp)}

\* first_wins_among, on the set of revealed colours
first_wins_among(uniq, sp) ==
    IF Cardinality(uniq) = 1 THEN uniq
    ELSE {c \in uniq :
            /\ \E d \in uniq \ {c} : beats(c, d, sp)
            /\ ~ \E d \in uniq \ {c} : beats(d, c, sp)}

\* the candidate that every other candidate dominates
tiebreak_by_spiral_dominated(cands, sp) ==
    {f \in cands : \A g \in cands : f = g \/ beats(g, f, sp)}

\* a candidate passes as soon as it dominates another candidate
tiebreak_by_spiral_beating_some(cands, sp) ==
    {f \in cands : \E g \in cands : f # g /\ beats(f, g, sp)}

\* tiebreak_by_spiral: the candidates that pass its test (it returns the first
\* one in the iteration order of the list, None if there is none)
tiebreak_by_spiral(cands, sp) ==
    {f \in cands : \A g \in cands : f = g \/ beats(f, g, sp)}

yellow_coverage_ok(ar) == \A i \in DOMAIN ar : ar[i].counts["yellow"] >= 1

---------------------------------------------------------------------------
(* The generator.  rng.shuffle / rng.sample are modelled by a bounded family *)
(* of permutations: deal the list into `stride` piles, stack the piles, cut *)
(* the result at `cut`.                                                     *)

Pile(len, stride, r) == [k \in 1..((len - r + stride - 1) \div stride) |-> r + (k - 1) * stride]

RECURSIVE Piles(_, _, _)
Piles(len, stride, r) ==
    IF r >= stride THEN <<>> ELSE Pile(len, stride, r) \o Piles(len, stride, r + 1)

Shuffle(s, stride, cut) ==
    IF s = <<>> THEN s
    ELSE LET ord == Piles(Len(s), stride, 0)
             b == cut % Len(s)
             rot == SubSeq(ord, b + 1, Len(ord)) \o SubSeq(ord, 1, b)
         IN [k \in 1..Len(s) |-> s[rot[k] + 1]]

---------------------------------------------------------------------------
(* Heuristics: clash card and reinforcement *)

RECURSIVE find_blue_loop(_, _, _, _)
find_blue_loop(target_sum, vals, best, best_sum) ==
    IF vals = <<>> THEN best
    ELSE LET v == Head(vals)
             s == target_sum + v
         IN IF s = BLUE_GOAL THEN v
            ELSE IF s < BLUE_GOAL /\ s > best_sum
                 THEN find_blue_loop(target_sum, Tail(vals), v, s)
                 ELSE find_blue_loop(target_sum, Tail(vals), best, best_sum)

\* find_blue_best_add: the value to add, or None
find_blue_best_add(target_sum, values_in_hand) ==
    IF values_in_hand = <<>> THEN None
    ELSE find_blue_loop(target_sum, values_in_hand, None, -1)

\* without the last loop: a hand none of the priorities applies to reveals nothing
choose_battle_card_tactical_by_priority_only(player_idx, hs, ar) ==
    LET hand == hs[player_idx]
        blue_vals == HandBlueVals(hand)
        v == find_blue_best_add(SumSeq(ar[player_idx].blue_values), blue_vals)
        has_targets ==
            \/ ar[player_idx].blue_values # <<>>
            \/ \E col \in {"red", "green", "yellow"} : ar[player_idx].counts[col] > 0
    IN IF hand = <<>> THEN NoneStr
       ELSE IF blue_vals # <<>> /\ v # None THEN blue_card(v)
       ELSE IF HandGet(hand, "green") > 0 THEN "green"
       ELSE IF HandGet(hand, "yellow") > 0 /\ ~yellow_coverage_ok(ar) THEN "yellow"
       ELSE IF HandGet(hand, "purple") > 0 /\ has_targets THEN "purple"
       ELSE IF HandGet(hand, "red") > 0 THEN "red"
       ELSE NoneStr

\* choose_battle_card_tactical: the card player_idx reveals, or NoneStr
choose_battle_card_tactical(player_idx, hs, ar) ==
    LET hand == hs[player_idx]
        blue_vals == HandBlueVals(hand)
        v == find_blue_best_add(SumSeq(ar[player_idx].blue_values), blue_vals)
        has_targets ==
            \/ ar[player_idx].blue_values # <<>>
            \/ \E col \in {"red", "green", "yellow"} : ar[player_idx].counts[col] > 0
    IN IF hand = <<>> THEN NoneStr
       ELSE IF blue_vals # <<>> /\ v # None THEN blue_card(v)
       ELSE IF HandGet(hand, "green") > 0 THEN "green"
       ELSE IF HandGet(hand, "yellow") > 0 /\ ~yellow_coverage_ok(ar) THEN "yellow"
       ELSE IF HandGet(hand, "purple") > 0 /\ has_targets THEN "purple"
       ELSE IF HandGet(hand, "red") > 0 THEN "red"
       ELSE FirstFactionCard(hand)

NoReinforcement == [card |-> NoneStr, dst |-> None, place_captain |-> FALSE]

\* the blue branch of choose_reinforcement_tactical
blue_reinforcement(current, blue_vals, ar) ==
    LET v == find_blue_best_add(SumSeq(ar[current].blue_values), blue_vals)
        s(i) == SumSeq(ar[i].blue_values)
        vv(i) == find_blue_best_add(s(i), blue_vals)
        fit == {i \in DOMAIN ar : vv(i) # None}
        exact == {i \in fit : s(i) + vv(i) = BLUE_GOAL}
        best_dst == CHOOSE i \in fit :
                        /\ \A k \in fit : s(k) + vv(k) <= s(i) + vv(i)
                        /\ \A k \in fit : k < i => s(k) + vv(k) < s(i) + vv(i)
    IN IF v # None THEN [card |-> blue_card(v), dst |-> current, place_captain |-> FALSE]
       ELSE IF exact # {}
            THEN [card |-> blue_card(vv(MinOf(exact))), dst |-> MinOf(exact), place_captain |-> FALSE]
       ELSE IF fit # {}
            THEN [card |-> blue_card(vv(best_dst)), dst |-> best_dst, place_captain |-> FALSE]
       ELSE NoReinforcement

\* the last branch of choose_reinforcement_tactical: any colour card, own zone
fallback_reinforcement(current, hand) ==
    IF HandGet(hand, "green") > 0 THEN [card |-> "green", dst |-> current, place_captain |-> FALSE]
    ELSE IF HandGet(hand, "yellow") > 0 THEN [card |-> "yellow", dst |-> current, place_captain |-> FALSE]
    ELSE IF HandGet(hand, "purple") > 0 THEN [card |-> "purple", dst |-> current, place_captain |-> FALSE]
    ELSE IF HandGet(hand, "red") > 0 THEN [card |-> "red", dst |-> current, place_captain |-> FALSE]
    ELSE IF FirstBlueCard(hand) # NoneStr
         THEN [card |-> FirstBlueCard(hand), dst |-> current, place_captain |-> FALSE]
    ELSE NoReinforcement

\* red puts the captain down whenever the roll allows, deployed or not
choose_reinforcement_tactical_redeploying(current, hs, ar, pl, cap_avail, cap_loc, roll) ==
    IF hs[current] # <<>> /\ pl[current] = "red" /\ roll
    THEN [card |-> NoneStr, dst |-> current, place_captain |-> TRUE]
    ELSE fallback_reinforcement(current, hs[current])

\* any player puts the captain down while it is in reserve
choose_reinforcement_tactical_of_any_faction(current, hs, ar, pl, cap_avail, cap_loc, roll) ==
    IF hs[current] # <<>> /\ cap_loc = None /\ roll
    THEN [card |-> NoneStr, dst |-> current, place_captain |-> TRUE]
    ELSE fallback_reinforcement(current, hs[current])

\* choose_reinforcement_tactical; roll: rng.random() < 0.8
choose_reinforcement_tactical(current, hs, ar, pl, cap_avail, cap_loc, roll) ==
    LET hand == hs[current]
        entity == pl[current]
        blue_vals == HandBlueVals(hand)
        targets(i) == ar[i].counts["red"] + ar[i].counts["green"]
                      + ar[i].counts["yellow"] + Len(ar[i].blue_values)
        most_targets == CHOOSE i \in DOMAIN ar :
                            /\ \A k \in DOMAIN ar : targets(k) <= targets(i)
                            /\ \A k \in DOMAIN ar : k < i => targets(k) < targets(i)
        no_yellow == {i \in DOMAIN ar : ar[i].counts["yellow"] < 1}
        blue_pick == blue_reinforcement(current, blue_vals, ar)
    IN IF hand = <<>> THEN NoReinforcement
       ELSE IF entity = "red" /\ cap_avail = current /\ cap_loc = None /\ roll
            \* best_dst stays `current`: the loop only accepts i == current
            THEN [card |-> NoneStr, dst |-> current, place_captain |-> TRUE]
       ELSE IF entity = "green" /\ HandGet(hand, "green") > 0
            THEN [card |-> "green", dst |-> current, place_captain |-> FALSE]
       ELSE IF entity = "yellow" /\ HandGet(hand, "yellow") > 0
            THEN IF ~yellow_coverage_ok(ar)
                 THEN [card |-> "yellow", dst |-> MinOf(no_yellow), place_captain |-> FALSE]
                 ELSE [card |-> "yellow", dst |-> current, place_captain |-> FALSE]
       ELSE IF entity = "blue" /\ blue_vals # <<>> /\ blue_pick # NoReinforcement
            THEN blue_pick
       ELSE IF entity = "purple" /\ HandGet(hand, "purple") > 0
            THEN [card |-> "purple", dst |-> most_targets, place_captain |-> FALSE]
       ELSE fallback_reinforcement(current, hand)

---------------------------------------------------------------------------
(* Anomalies *)

\* options of anom_black_hole / squads of anom_wormhole: (zone, colour) pairs
black_hole_options(ar) ==
    {o \in (DOMAIN ar) \X (PlainSet \cup {"blue", "aura"}) :
        \/ o[2] \in PlainSet /\ ar[o[1]].counts[o[2]] > 0
        \/ o[2] = "blue" /\ ar[o[1]].blue_values # <<>>
        \/ o[2] = "aura" /\ ar[o[1]].auras > 0}

wormhole_squads(ar) ==
    {o \in (DOMAIN ar) \X (PlainSet \cup {"blue"}) :
        \/ o[2] \in PlainSet /\ ar[o[1]].counts[o[2]] > 0
        \/ o[2] = "blue" /\ ar[o[1]].blue_values # <<>>}

\* the cards anom_black_hole appends to the discard for option o
RECURSIVE PopAll(_)
PopAll(vals) == IF vals = <<>> THEN <<>> ELSE <<blue_card(Last(vals))>> \o PopAll(ButLast(vals))

\* removed alliance tokens leave no marker in the discard
black_hole_discards_without_markers(ar, o) ==
    IF o[2] = "aura" THEN <<>>
    ELSE IF o[2] = "blue" THEN PopAll(ar[o[1]].blue_values)
    ELSE Repeat(o[2], ar[o[1]].counts[o[2]])

black_hole_discards(ar, o) ==
    IF o[2] = "aura" THEN Repeat("aura_back", ar[o[1]].auras)
    ELSE IF o[2] = "blue" THEN PopAll(ar[o[1]].blue_values)
    ELSE Repeat(o[2], ar[o[1]].counts[o[2]])

\* the zones after anom_black_hole removed squad o (the captain is a flag, not a card)
black_hole_areas(ar, o) ==
    IF o[2] = "aura" THEN [ar EXCEPT ![o[1]].auras = 0]
    ELSE IF o[2] = "blue" THEN [ar EXCEPT ![o[1]].blue_values = <<>>]
    ELSE [ar EXCEPT ![o[1]].counts[o[2]] = 0]

\* a single card of the squad is moved
wormhole_areas_one_card(ar, o, dst) ==
    IF o[2] = "blue"
    THEN [ar EXCEPT ![o[1]].blue_values = ButLast(@),
                    ![dst].blue_values = Append(@, Last(ar[o[1]].blue_values))]
    ELSE [ar EXCEPT ![o[1]].counts[o[2]] = @ - 1, ![dst].counts[o[2]] = @ + 1]

\* the zones after anom_wormhole moved squad o to zone dst
wormhole_areas(ar, o, dst) ==
    IF o[2] = "blue"
    THEN [ar EXCEPT ![o[1]].blue_values = <<>>,
                    ![dst].blue_values = @ \o ar[o[1]].blue_values]
    ELSE IF ar[o[1]].counts[o[2]] <= 0 THEN ar
    ELSE [ar EXCEPT ![o[1]].counts[o[2]] = 0,
                    ![dst].counts[o[2]] = @ + ar[o[1]].counts[o[2]]]

\* the special unit is taken for a card of the red squad of its zone
anom_black_hole_counting_unit(ar, pile, cap_loc) ==
    LET with_unit == black_hole_options(ar)
                     \cup (IF cap_loc \in DOMAIN ar THEN {<<cap_loc, "red">>} ELSE {})
        size(o) == IF o[2] = "red" THEN area_color_size(ar[o[1]], "red", cap_loc = o[1])
                   ELSE 0
    IN IF with_unit = {} THEN {[areas |-> ar, delete_pile |-> pile]}
       ELSE {[areas |-> black_hole_areas(ar, o),
              delete_pile |-> pile \o (IF o[2] = "red" THEN Repeat("red", size(o))
                                       ELSE black_hole_discards(ar, o))] : o \in with_unit}

\* anom_black_hole: the zones and the discard pile it can leave
anom_black_hole(ar, pile, cap_loc) ==
    IF black_hole_options(ar) = {} THEN {[areas |-> ar, delete_pile |-> pile]}
    ELSE {[areas |-> black_hole_areas(ar, o),
           delete_pile |-> pile \o black_hole_discards(ar, o)] : o \in black_hole_options(ar)}

\* anom_wormhole: the zones it can leave
anom_wormhole(ar, cap_loc) ==
    IF wormhole_squads(ar) = {} \/ Cardinality(DOMAIN ar) < 2 THEN {ar}
    ELSE {wormhole_areas(ar, od[1], od[2]) :
            od \in {x \in wormhole_squads(ar) \X DOMAIN ar : x[2] # x[1][1]}}

is_faction_card(c) == is_blue(c) \/ c \in PlainSet

\* the blue cards are left in the discard
RECURSIVE big_bang_returned_plain(_)
big_bang_returned_plain(pile) ==
    IF pile = <<>> THEN <<>>
    ELSE (IF Head(pile) \in PlainSet THEN <<Head(pile)>> ELSE <<>>)
         \o big_bang_returned_plain(Tail(pile))

\* anom_big_bang: the cards that go back to the deck / stay in the discard
RECURSIVE big_bang_returned(_)
big_bang_returned(pile) ==
    IF pile = <<>> THEN <<>>
    ELSE (IF is_faction_card(Head(pile)) THEN <<Head(pile)>> ELSE <<>>)
         \o big_bang_returned(Tail(pile))

RECURSIVE big_bang_keep(_)
big_bang_keep(pile) ==
    IF pile = <<>> THEN <<>>
    ELSE (IF is_faction_card(Head(pile)) THEN <<>> ELSE <<Head(pile)>>)
         \o big_bang_keep(Tail(pile))

\* the discard pile is not cleared
anom_big_bang_copying(dk, pile) ==
    [deck |-> dk \o big_bang_returned(pile), delete_pile |-> pile]

\* anom_big_bang: the deck (before rng.shuffle) and the discard pile it leaves
anom_big_bang(dk, pile) ==
    [deck |-> dk \o big_bang_returned(pile), delete_pile |-> big_bang_keep(pile)]

\* the player is put at the back of the queue
anom_time_loop_at_the_back(q, cur) == Append(q, cur)

\* anom_time_loop: turn_q.appendleft(current)
anom_time_loop(q, cur) == <<cur>> \o q

\* mine_in_dump of choose_anomaly_or_move_tactical
RECURSIVE mine_in_dump(_, _)
mine_in_dump(pile, my_col) ==
    IF pile = <<>> THEN 0
    ELSE (IF (my_col # "blue" /\ Head(pile) = my_col) \/ (my_col = "blue" /\ is_blue(Head(pile)))
          THEN 1 ELSE 0)
         + mine_in_dump(Tail(pile), my_col)

\* a single yellow card anywhere passes for yellow coverage
black_hole_wanted_by_any_yellow(ar) ==
    \/ \E i \in DOMAIN ar : ar[i].counts["green"] >= GREEN_NEAR_WIN
    \/ \E i \in DOMAIN ar : ar[i].counts["yellow"] >= 1
    \/ \E i \in DOMAIN ar : SumSeq(ar[i].blue_values) \in BLUE_DANGER_RANGE

\* the "danger" tests that let the black hole be played
black_hole_wanted(ar) ==
    \/ \E i \in DOMAIN ar : ar[i].counts["green"] >= GREEN_INSTANT
    \/ \E i \in DOMAIN ar : ar[i].counts["green"] >= GREEN_NEAR_WIN
    \/ yellow_coverage_ok(ar)
    \/ \E i \in DOMAIN ar : SumSeq(ar[i].blue_values) \in BLUE_DANGER_RANGE

---------------------------------------------------------------------------
(* Heuristic relocation of one card (second half of                         *)
(* choose_anomaly_or_move_tactical): the zones afterwards                   *)

move_one(ar, color, src, dst) ==
    [ar EXCEPT ![src].counts[color] = @ - 1, ![dst].counts[color] = @ + 1]

blue_move(ar) ==
    LET pairs == {p \in (DOMAIN ar) \X (DOMAIN ar) :
                    ar[p[1]].blue_values # <<>> /\ p[1] # p[2]}
        val(p) == Last(ar[p[1]].blue_values)
        new_sj(p) == SumSeq(ar[p[2]].blue_values) + val(p)
        score(p) == IF new_sj(p) <= BLUE_GOAL THEN new_sj(p) ELSE -1
        earlier(q, p) == q[1] < p[1] \/ (q[1] = p[1] /\ q[2] < p[2])
        move == CHOOSE p \in pairs :
                    /\ \A q \in pairs : score(q) <= score(p)
                    /\ \A q \in pairs : earlier(q, p) => score(q) < score(p)
    IN IF pairs = {} THEN ar
       ELSE [ar EXCEPT ![move[1]].blue_values = RemoveFirst(@, val(move)),
                       ![move[2]].blue_values = Append(@, val(move))]

heuristic_move(current, ar, pl) ==
    LET entity == pl[current]
        others_with(color) == {i \in DOMAIN ar : i # current /\ ar[i].counts[color] > 0}
        others_blue == {i \in DOMAIN ar : i # current /\ ar[i].blue_values # <<>>}
        y_src == {i \in DOMAIN ar : ar[i].counts["yellow"] >= 2}
        y_dst == {i \in DOMAIN ar : ar[i].counts["yellow"] < 1}
    IN IF entity = "green" /\ others_with("green") # {}
       THEN move_one(ar, "green", MinOf(others_with("green")), current)
       ELSE IF entity = "yellow" /\ ~yellow_coverage_ok(ar)
               /\ y_src # {} /\ y_dst # {} /\ MinOf(y_src) # MinOf(y_dst)
       THEN move_one(ar, "yellow", MinOf(y_src), MinOf(y_dst))
       ELSE IF entity = "blue" /\ (\E i \in DOMAIN ar : ar[i].blue_values # <<>>)
                 /\ Cardinality(DOMAIN ar) > 1
       THEN blue_move(ar)
       ELSE IF entity = "purple" /\ others_with("green") # {}
       THEN move_one(ar, "green", MinOf(others_with("green")), current)
       ELSE IF entity = "purple" /\ others_with("yellow") # {}
       THEN move_one(ar, "yellow", MinOf(others_with("yellow")), current)
       ELSE IF entity = "purple" /\ others_blue # {}
       THEN [ar EXCEPT ![MinOf(others_blue)].blue_values = ButLast(@),
                       ![current].blue_values = Append(@, Last(ar[MinOf(others_blue)].blue_values))]
       ELSE ar

---------------------------------------------------------------------------
(* Assault *)

\* a squad of the same size wins too
can_win_fight_on_equal(area, atk, dfn, sp, captain_here) ==
    \/ area_color_size(area, atk, captain_here) >= area_color_size(area, dfn, captain_here)
    \/ beats(atk, dfn, sp)

can_win_fight(area, atk, dfn, sp, captain_here) ==
    \/ area_color_size(area, atk, captain_here) > area_color_size(area, dfn, captain_here)
    \/ beats(atk, dfn, sp)

\* total_by_color, with purple's entry being "purple_with_auras"
RECURSIVE total_presence(_, _, _, _)
total_presence(ar, S, c, cap_loc) ==
    IF S = {} THEN 0
    ELSE LET i == CHOOSE x \in S : TRUE
             here == IF c = "blue" THEN Len(ar[i].blue_values)
                     ELSE IF c = "purple" THEN ar[i].counts["purple"] + ar[i].auras
                     ELSE IF c = "red" THEN ar[i].counts["red"]
                                            + (IF cap_loc # None /\ cap_loc = i THEN 1 ELSE 0)
                     ELSE ar[i].counts[c]
         IN here + total_presence(ar, S \ {i}, c, cap_loc)

\* max(..., key=total)[0]: the first faction of FRACTIONS with the largest total
leader_of(ar, cap_loc) ==
    LET tot(k) == total_presence(ar, DOMAIN ar, FRACTIONS[k], cap_loc)
        k0 == CHOOSE k \in 1..Len(FRACTIONS) :
                  /\ \A m \in 1..Len(FRACTIONS) : tot(m) <= tot(k)
                  /\ \A m \in 1..(k - 1) : tot(m) < tot(k)
    IN FRACTIONS[k0]

\* a colour with no squad in the zone can be attacked too
RECURSIVE attack_pairs_with_absent_defender(_, _, _)
attack_pairs_with_absent_defender(area, captain_here, k) ==
    IF k > Len(FRACTIONS) * Len(FRACTIONS) THEN <<>>
    ELSE LET atk == FRACTIONS[((k - 1) \div Len(FRACTIONS)) + 1]
             col == FRACTIONS[((k - 1) % Len(FRACTIONS)) + 1]
         IN (IF atk # col /\ area_color_size(area, atk, captain_here) > 0
             THEN <<<<atk, col>>>> ELSE <<>>)
            \o attack_pairs_with_absent_defender(area, captain_here, k + 1)

\* candidates of choose_attack_tactical, in the order the code builds them
RECURSIVE attack_pairs(_, _, _)
attack_pairs(area, captain_here, k) ==
    IF k > Len(FRACTIONS) * Len(FRACTIONS) THEN <<>>
    ELSE LET atk == FRACTIONS[((k - 1) \div Len(FRACTIONS)) + 1]
             col == FRACTIONS[((k - 1) % Len(FRACTIONS)) + 1]
         IN (IF /\ atk # col
                /\ area_color_size(area, atk, captain_here) > 0
                /\ area_color_size(area, col, captain_here) > 0
             THEN <<<<atk, col>>>> ELSE <<>>)
            \o attack_pairs(area, captain_here, k + 1)

\* choose_attack_tactical: the set of (atk, def) it can return; {} stands for None.
\* Step 3 shuffles the candidates, so any winning candidate can come first.
choose_attack_tactical(current, ar, pl, sp, cap_loc) ==
    LET area == ar[current]
        cap_here == (cap_loc = current)
        candidates == attack_pairs(area, cap_here, 1)
        wins_fight(p) == can_win_fight(area, p[1], p[2], sp, cap_here)
        deny_green(p) == p[2] = "green" /\ area.counts["green"] >= GREEN_NEAR_WIN /\ wins_fight(p)
        deny_yellow(p) == p[2] = "yellow" /\ area.counts["yellow"] = 1 /\ wins_fight(p)
        deny_blue(p) == p[2] = "blue" /\ SumSeq(area.blue_values) \in BLUE_DANGER_RANGE /\ wins_fight(p)
        my_entity == pl[current]
        leader == leader_of(ar, cap_loc)
        hits_leader(p) == leader # my_entity /\ p[2] = leader /\ wins_fight(p)
        not_mine(p) == p[2] # my_entity /\ wins_fight(p)
    IN IF candidates = <<>> THEN {}
       ELSE IF SelectSeq(candidates, deny_green) # <<>> THEN {Head(SelectSeq(candidates, deny_green))}
       ELSE IF SelectSeq(candidates, deny_yellow) # <<>> THEN {Head(SelectSeq(candidates, deny_yellow))}
       ELSE IF SelectSeq(candidates, deny_blue) # <<>> THEN {Head(SelectSeq(candidates, deny_blue))}
       ELSE IF SelectSeq(candidates, hits_leader) # <<>> THEN {Head(SelectSeq(candidates, hits_leader))}
       ELSE IF SelectSeq(candidates, not_mine) # <<>> THEN Range(SelectSeq(candidates, not_mine))
       ELSE Range(SelectSeq(candidates, wins_fight))

\* phase_attack after the choice: the defender loses one card, which becomes an
\* aura when the attacking colour is purple and goes to the discard otherwise
attack_areas(ar, current, cap_loc, sp, choice) ==
    LET a == ar[current]
        atk == choice[1]
        dfn == choice[2]
        lost == removed_card(a, dfn)
        after == remove_one_from_area(a, dfn)
    IN IF ~can_win_fight(a, atk, dfn, sp, cap_loc = current) THEN ar
       ELSE IF lost = NoneStr THEN ar
       ELSE IF atk = "purple"
            THEN [ar EXCEPT ![current] = [after EXCEPT !.auras = @ + 1]]
            ELSE [ar EXCEPT ![current] = after]

\* the lost card is discarded whatever colour attacked
attack_discards_of_any_attacker(ar, current, cap_loc, sp, choice) ==
    IF ~can_win_fight(ar[current], choice[1], choice[2], sp, cap_loc = current) THEN <<>>
    ELSE IF removed_card(ar[current], choice[2]) = NoneStr THEN <<>>
    ELSE <<removed_card(ar[current], choice[2])>>

attack_discards(ar, current, cap_loc, sp, choice) ==
    LET a == ar[current]
        atk == choice[1]
        dfn == choice[2]
        lost == removed_card(a, dfn)
    IN IF ~can_win_fight(a, atk, dfn, sp, cap_loc = current) THEN <<>>
       ELSE IF lost = NoneStr THEN <<>>
       ELSE IF atk = "purple" THEN <<>>
       ELSE <<lost>>

---------------------------------------------------------------------------
(* Recovery *)

\* need is taken the wrong way round, hand size minus TARGET_HAND
deal_one_reversed(st, i) ==
    LET need == IF HandSize(st.hands[i]) - TARGET_HAND > 0
                THEN HandSize(st.hands[i]) - TARGET_HAND ELSE 0
        take == IF need <= Len(st.deck) THEN need ELSE Len(st.deck)
        drawn(k) == st.deck[Len(st.deck) - k + 1]
        RECURSIVE fill(_, _)
        fill(h, k) == IF k > take THEN h ELSE fill(HandAdd(h, drawn(k)), k + 1)
    IN IF st.stop \/ need = 0 THEN st
       ELSE [deck |-> SubSeq(st.deck, 1, Len(st.deck) - take),
             hands |-> [st.hands EXCEPT ![i] = fill(@, 1)],
             last_taker |-> IF take > 0 THEN i ELSE st.last_taker,
             emptied_now |-> (take = Len(st.deck)),
             stop |-> (take = Len(st.deck))]

\* deal_up_to, player by player: st = [deck, hands, last_taker, emptied_now, stop]
deal_one(st, i) ==
    LET need == IF TARGET_HAND - HandSize(st.hands[i]) > 0
                THEN TARGET_HAND - HandSize(st.hands[i]) ELSE 0
        take == IF need <= Len(st.deck) THEN need ELSE Len(st.deck)
        drawn(k) == st.deck[Len(st.deck) - k + 1]     \* k-th card popped
        RECURSIVE fill(_, _)
        fill(h, k) == IF k > take THEN h ELSE fill(HandAdd(h, drawn(k)), k + 1)
    IN IF st.stop \/ need = 0 THEN st
       ELSE [deck |-> SubSeq(st.deck, 1, Len(st.deck) - take),
             hands |-> [st.hands EXCEPT ![i] = fill(@, 1)],
             last_taker |-> IF take > 0 THEN i ELSE st.last_taker,
             emptied_now |-> (take = Len(st.deck)),
             stop |-> (take = Len(st.deck))]

\* the players are served against the order of play
RECURSIVE deal_from_backwards(_, _, _, _)
deal_from_backwards(st, start_idx, k, n) ==
    IF k >= n THEN st
    ELSE deal_from_backwards(deal_one(st, (start_idx + n - k) % n), start_idx, k + 1, n)

RECURSIVE deal_from(_, _, _, _)
deal_from(st, start_idx, k, n) ==
    IF k >= n THEN st
    ELSE CHOOSE r \in {deal_from(s1, start_idx, k + 1, n) :
                       s1 \in {deal_one(st, (start_idx + k) % n)}} : TRUE

deal_up_to(dk, hs, start_idx, n) ==
    deal_from([deck |-> dk, hands |-> hs, last_taker |-> None,
               emptied_now |-> FALSE, stop |-> FALSE], start_idx, 0, n)

---------------------------------------------------------------------------
(* Scoring *)

\* the captain is not counted
score_total_without_captain(ar, S, c, cap_loc) ==
    SumSeq([k \in 1..Cardinality(S) |->
              LET i == CHOOSE x \in S : Cardinality({y \in S : y < x}) = k - 1
              IN IF c = "blue" THEN Len(ar[i].blue_values)
                 ELSE IF c = "purple" THEN ar[i].counts["purple"] + ar[i].auras
                 ELSE ar[i].counts[c]])

RECURSIVE score_total(_, _, _, _)
score_total(ar, S, c, cap_loc) ==
    IF S = {} THEN 0
    ELSE LET i == CHOOSE x \in S : TRUE
             here == IF c = "blue" THEN Len(ar[i].blue_values)
                     ELSE IF c = "purple" THEN ar[i].counts["purple"] + ar[i].auras
                     ELSE IF c = "red" THEN ar[i].counts["red"] + (IF cap_loc = i THEN 1 ELSE 0)
                     ELSE ar[i].counts[c]
         IN here + score_total(ar, S \ {i}, c, cap_loc)

\* score_game: the set of factions it can return (one, unless the tie is
\* left to random.choice)
score_game(ar, pl, sp, cap_loc) ==
    LET contenders == {pl[i] : i \in DOMAIN pl}
        total(c) == score_total(ar, DOMAIN ar, c, cap_loc)
        tied == {c \in contenders : \A d \in contenders : total(d) <= total(c)}
        tb == tiebreak_by_spiral(tied, sp)
    IN IF Cardinality(tied) = 1 THEN tied
       ELSE IF tb # {} THEN tb
       ELSE tied

---------------------------------------------------------------------------
(* Outcomes of the generator's initial draws: rng.sample(FRACTIONS, n) takes *)
(* the first n of `assign`, init_deck shuffles with `deck`, make_spiral      *)
(* returns `spiral`.                                                         *)

Seeds == <<
    [assign |-> <<"purple", "blue", "green", "yellow", "red">>, deck |-> <<5, 7>>,
     spiral |-> <<"blue", "green", "purple", "red", "yellow">>],
    [assign |-> <<"green", "blue", "yellow", "red", "purple">>, deck |-> <<13, 10>>,
     spiral |-> <<"yellow", "green", "red", "blue", "purple">>],
    [assign |-> <<"yellow", "green", "blue", "purple", "red">>, deck |-> <<11, 0>>,
     spiral |-> <<"purple", "yellow", "blue", "green", "red">>],
    [assign |-> <<"yellow", "blue", "green", "purple", "red">>, deck |-> <<9, 4>>,
     spiral |-> <<"green", "red", "purple", "yellow", "blue">>],
    [assign |-> <<"blue", "purple", "green", "yellow", "red">>, deck |-> <<14, 48>>,
     spiral |-> <<"red", "blue", "green", "purple", "yellow">>],
    [assign |-> <<"blue", "purple", "green", "red", "yellow">>, deck |-> <<14, 52>>,
     spiral |-> <<"blue", "yellow", "purple", "red", "green">>],
    [assign |-> <<"green", "purple", "yellow", "blue", "red">>, deck |-> <<11, 53>>,
     spiral |-> <<"red", "purple", "blue", "green", "yellow">>],
    [assign |-> <<"blue", "yellow", "purple", "green", "red">>, deck |-> <<11, 53>>,
     spiral |-> <<"purple", "red", "yellow", "green", "blue">>] >>

\* factions drawn with replacement: the last player draws the first one's again
random_assign_players_replacing(n, seed) ==
    [i \in 0..(n - 1) |-> Seeds[seed].assign[IF i = n - 1 THEN 1 ELSE i + 1]]

random_assign_players(n, seed) == [i \in 0..(n - 1) |-> Seeds[seed].assign[i + 1]]

make_spiral(seed) == Seeds[seed].spiral

init_deck(anomaly, seed) ==
    LET plain == Repeat("red", CARDS_PER_COLOR) \o Repeat("green", CARDS_PER_COLOR)
                 \o Repeat("yellow", CARDS_PER_COLOR) \o Repeat("purple", CARDS_PER_COLOR)
    IN Shuffle(plain \o BLUE_CARDS \o <<anomaly>>, Seeds[seed].deck[1], Seeds[seed].deck[2])

\* the starting deal of play_one_game: TARGET_HAND cards each, player 0 first
RECURSIVE initial_deal(_, _, _, _)
initial_deal(dk, hs, i, n) ==
    IF i >= n THEN [deck |-> dk, hands |-> hs]
    ELSE LET take == IF TARGET_HAND <= Len(dk) THEN TARGET_HAND ELSE Len(dk)
             RECURSIVE fill(_, _)
             fill(h, k) == IF k > take THEN h ELSE fill(HandAdd(h, dk[Len(dk) - k + 1]), k + 1)
         IN initial_deal(SubSeq(dk, 1, Len(dk) - take), [hs EXCEPT ![i] = fill(@, 1)], i + 1, n)

\* what has happened in the current game:
\*   assigned        the assignment random_assign_players returned
\*   emptied_by      the player whose Recovery draw emptied the deck
\*   emptied_current the current player of the turn in which that happened
\*   post_turns      the current players of the turns begun after that
\*   scored          score_game was called
\*   phase           the phase that ran last
\*   played          the anomaly played in the last Movement-or-Anomaly phase
\*   spiral_before   the spiral before that phase
\*   turn_deck       the size of the deck when the turn began
\*   revealed        the card each player revealed in the last Clash (NoneStr: none)
\*   winners         the winning colours of the last Clash
\*   assault         the (attacking colour, defending colour) of the last Assault,
\*                   <<>> when there was none
\*   deployments     how many times the captain was put on the board
\*   before          the zones, discard pile, deck, hands and special unit as they
\*                   were when the phase that ran last began
StartHistory(pl, sp, dk) ==
    [assigned |-> pl, emptied_by |-> None, emptied_current |-> None, post_turns |-> <<>>,
     scored |-> FALSE, phase |-> "setup", played |-> NoneStr, spiral_before |-> sp,
     turn_deck |-> Len(dk), deployments |-> 0,
     revealed |-> [i \in DOMAIN pl |-> NoneStr], winners |-> {}, assault |-> <<>>,
     before |-> [areas |-> [i \in DOMAIN pl |-> EmptyArea], delete_pile |-> <<>>,
                 deck |-> dk, hands |-> [i \in DOMAIN pl |-> <<>>], captain_loc |-> None,
                 current |-> None]]

\* the values a phase finds when it begins
Before ==
    [areas |-> areas, delete_pile |-> delete_pile, deck |-> deck, hands |-> hands,
     captain_loc |-> captain_loc, current |-> Head(turn_q) % num_players]

\* play_one_game up to its loop: the values of its variables
new_game(n, seed, anomaly, first) ==
    LET pl == random_assign_players(n, seed)
        dealt == initial_deal(init_deck(anomaly, seed), [i \in 0..(n - 1) |-> <<>>], 0, n)
        red_at == {i \in 0..(n - 1) : pl[i] = "red"}
    IN [num_players |-> n,
        players |-> pl,
        deck |-> dealt.deck,
        hands |-> dealt.hands,
        areas |-> [i \in 0..(n - 1) |-> EmptyArea],
        spiral |-> make_spiral(seed),
        captain_avail_idx |-> IF red_at = {} THEN None ELSE MinOf(red_at),
        turn_q |-> [k \in 1..n |-> first + k - 1]]

---------------------------------------------------------------------------
(* The phases of a turn *)

current == Head(turn_q) % num_players

\* the check after the Reinforcement phase is left out
CheckInstantsNotAfterReinforcement(next_pc) ==
    LET w == check_instants(areas')
    IN IF w # NoneStr /\ next_pc # "move"
       THEN pc' = "done" /\ winner' = w
       ELSE pc' = next_pc /\ winner' = winner

\* w = check_instants(); if w: return (w, players)
CheckInstantsThen(next_pc) ==
    LET w == check_instants(areas')
    IN IF w # NoneStr
       THEN pc' = "done" /\ winner' = w
       ELSE pc' = next_pc /\ winner' = winner

\* phase_battle, first loop: the card every player reveals (NoneStr: none);
\* it leaves the hand
clash_played(hs, ar) ==
    [i \in DOMAIN hs |-> choose_battle_card_tactical(i, hs, ar)]

clash_hands(hs, played) ==
    [i \in DOMAIN hs |-> IF played[i] # NoneStr THEN HandTake(hs[i], played[i]) ELSE hs[i]]

\* phase_battle: the winning colours of the revealed cards
clash_winners(played, sp) ==
    LET uniq == {card_color(played[i]) : i \in DOMAIN played} \ {NoneStr}
    IN IF uniq = {} THEN {} ELSE first_wins_among(uniq, sp)

\* phase_battle, last loop: a revealed card of a winning colour goes to the zone
\* of its player; the other revealed cards are not stored anywhere
clash_areas(ar, played, winners) ==
    [i \in DOMAIN ar |->
        IF played[i] # NoneStr /\ card_color(played[i]) \in winners
        THEN place_card_in_area(ar[i], played[i]) ELSE ar[i]]

PhaseBattle ==
    /\ pc = "battle"
    /\ \E played \in {clash_played(hands, areas)} :
       \E winners \in {clash_winners(played, spiral)} :
         /\ hands' = clash_hands(hands, played)
         /\ areas' = clash_areas(areas, played, winners)
         /\ hist' = [hist EXCEPT !.phase = "battle", !.played = NoneStr, !.before = Before,
                                 !.revealed = played, !.winners = winners,
                                 !.turn_deck = Len(deck),
                                 !.post_turns = IF hist.emptied_by # None
                                                THEN Append(@, current) ELSE @]
    /\ CheckInstantsThen("reinforcement")
    /\ UNCHANGED <<num_players, players, deck, delete_pile, spiral, turn_q,
                   captain_avail_idx, captain_loc, final_enqueued, final_player, driverVars>>

PhaseReinforcement ==
    /\ pc = "reinforcement"
    /\ \E roll \in BOOLEAN :
       \E r \in {choose_reinforcement_tactical(current, hands, areas, players,
                                               captain_avail_idx, captain_loc, roll)} :
            /\ IF r.place_captain /\ r.dst # None
               THEN /\ captain_loc' = r.dst
                    /\ captain_avail_idx' = None
                    /\ UNCHANGED <<hands, areas>>
               ELSE IF r.card = NoneStr \/ r.dst = None
               THEN UNCHANGED <<hands, areas, captain_loc, captain_avail_idx>>
               ELSE /\ hands' = [hands EXCEPT ![current] = HandTake(@, r.card)]
                    /\ areas' = [areas EXCEPT ![r.dst] = place_card_in_area(@, r.card)]
                    /\ UNCHANGED <<captain_loc, captain_avail_idx>>
            /\ hist' = [hist EXCEPT !.phase = "reinforcement", !.before = Before,
                                    !.deployments = IF r.place_captain /\ r.dst # None
                                                    THEN @ + 1 ELSE @]
    /\ CheckInstantsThen("move")
    /\ UNCHANGED <<num_players, players, deck, delete_pile, spiral, turn_q,
                   final_enqueued, final_player, driverVars>>

\* every other player loses the first card of the hand as well
play_and_discard_from_all_hands(anom) ==
    /\ hands' = [i \in DOMAIN hands |->
                    IF i = current THEN HandTake(hands[i], anom)
                    ELSE IF hands[i] # <<>> THEN HandTake(hands[i], Head(hands[i]).card)
                    ELSE hands[i]]
    /\ hist' = [hist EXCEPT !.phase = "move", !.played = anom, !.spiral_before = spiral,
                            !.before = Before]

\* the anomaly stays in the hand
play_and_keep(anom) ==
    /\ hands' = hands
    /\ hist' = [hist EXCEPT !.phase = "move", !.played = anom, !.spiral_before = spiral,
                            !.before = Before]

\* play_and_discard
play_and_discard(anom) ==
    /\ hands' = [hands EXCEPT ![current] = HandTake(@, anom)]
    /\ hist' = [hist EXCEPT !.phase = "move", !.played = anom, !.spiral_before = spiral,
                            !.before = Before]

BlackHoleFires ==
    "anom_black_hole" \in HandAnoms(hands[current]) /\ black_hole_wanted(areas)

\* the deck may be empty
BigBangFiresOnEmptyDeck ==
    /\ "anom_big_bang" \in HandAnoms(hands[current])
    /\ mine_in_dump(delete_pile, players[current]) >= 3

BigBangFires ==
    /\ "anom_big_bang" \in HandAnoms(hands[current])
    /\ mine_in_dump(delete_pile, players[current]) >= 3
    /\ Len(deck) > 0

PlayBlackHole ==
    /\ BlackHoleFires
    /\ \E r \in anom_black_hole(areas, delete_pile, captain_loc) :
            /\ areas' = r.areas
            /\ delete_pile' = Append(r.delete_pile, "anom_black_hole")
    /\ play_and_discard("anom_black_hole")
    /\ UNCHANGED <<deck, spiral, turn_q>>

\* random.random() < 0.6 came out true
PlayWormhole ==
    /\ ~BlackHoleFires
    /\ "anom_wormhole" \in HandAnoms(hands[current])
    /\ areas' \in anom_wormhole(areas, captain_loc)
    /\ delete_pile' = Append(delete_pile, "anom_wormhole")
    /\ play_and_discard("anom_wormhole")
    /\ UNCHANGED <<deck, spiral, turn_q>>

\* the wormhole was not played and random.random() < 0.5 came out true
PlayQuantum ==
    /\ ~BlackHoleFires
    /\ "anom_quantum_entanglement" \in HandAnoms(hands[current])
    /\ \E i, j \in 0..(Len(spiral) - 1) :
         /\ i # j
         /\ spiral' = swap_positions(spiral, i, j)
    /\ delete_pile' = Append(delete_pile, "anom_quantum_entanglement")
    /\ play_and_discard("anom_quantum_entanglement")
    /\ UNCHANGED <<deck, areas, turn_q>>

PlayBigBang ==
    /\ ~BlackHoleFires
    /\ BigBangFires
    /\ \E k \in 1..NumShuffles :
         deck' = Shuffle(anom_big_bang(deck, delete_pile).deck, k, 0)
    /\ delete_pile' = Append(anom_big_bang(deck, delete_pile).delete_pile, "anom_big_bang")
    /\ play_and_discard("anom_big_bang")
    /\ UNCHANGED <<areas, spiral, turn_q>>

PlayTimeLoop ==
    /\ ~BlackHoleFires
    /\ ~BigBangFires
    /\ "anom_time_loop" \in HandAnoms(hands[current])
    /\ turn_q' = anom_time_loop(turn_q, current)
    /\ delete_pile' = Append(delete_pile, "anom_time_loop")
    /\ play_and_discard("anom_time_loop")
    /\ UNCHANGED <<deck, areas, spiral>>

\* no anomaly is played: the heuristic relocation, or nothing
Relocate ==
    /\ ~BlackHoleFires
    /\ ~BigBangFires
    /\ "anom_time_loop" \notin HandAnoms(hands[current])
    /\ areas' = heuristic_move(current, areas, players)
    /\ hist' = [hist EXCEPT !.phase = "move", !.played = NoneStr, !.spiral_before = spiral,
                            !.before = Before]
    /\ UNCHANGED <<hands, deck, delete_pile, spiral, turn_q>>

PhaseMoveOrAnomaly ==
    /\ pc = "move"
    /\ \/ PlayBlackHole
       \/ PlayWormhole
       \/ PlayQuantum
       \/ PlayBigBang
       \/ PlayTimeLoop
       \/ Relocate
    /\ CheckInstantsThen("attack")
    /\ UNCHANGED <<num_players, players, captain_avail_idx, captain_loc,
                   final_enqueued, final_player, driverVars>>

PhaseAttack ==
    /\ pc = "attack"
    /\ \E choices \in {choose_attack_tactical(current, areas, players, spiral, captain_loc)} :
          IF choices = {}
          THEN /\ UNCHANGED <<areas, delete_pile>>
               /\ hist' = [hist EXCEPT !.phase = "attack", !.before = Before,
                                       !.assault = <<>>]
          ELSE \E choice \in choices :
                 /\ areas' = attack_areas(areas, current, captain_loc, spiral, choice)
                 /\ delete_pile' = delete_pile
                                   \o attack_discards(areas, current, captain_loc, spiral, choice)
                 /\ hist' = [hist EXCEPT !.phase = "attack", !.before = Before,
                                         !.assault = choice]
    /\ CheckInstantsThen("deal")
    /\ UNCHANGED <<num_players, players, deck, hands, spiral, turn_q, captain_avail_idx,
                   captain_loc, final_enqueued, final_player, driverVars>>

\* the end of a turn in play_one_game, after deal_up_to returned d:
\* [turn_q, final_enqueued, final_player, over]
end_of_turn(q, fe, fp, d, n) ==
    LET enq == d.emptied_now /\ ~fe /\ d.last_taker # None
        q1 == IF enq THEN <<d.last_taker>> \o q ELSE q
        fe1 == fe \/ enq
        fp1 == IF enq THEN d.last_taker ELSE fp
        q2 == Tail(q1) \o <<Head(q1)>>
    IN [turn_q |-> q2, final_enqueued |-> fe1, final_player |-> fp1,
        over |-> \/ fe1 /\ (Head(q2) % n) # fp1 /\ d.deck = <<>>
                 \/ d.deck = <<>> /\ \A i \in DOMAIN d.hands : HandSize(d.hands[i]) = 0]

PhaseDeal ==
    /\ pc = "deal"
    /\ \E d \in {deal_up_to(deck, hands, current, num_players)} :
       LET e == end_of_turn(turn_q, final_enqueued, final_player, d, num_players)
           w == check_instants(areas)
           emptied_here == deck # <<>> /\ d.deck = <<>>
       IN /\ deck' = d.deck
          /\ hands' = d.hands
          /\ IF w # NoneStr
             THEN /\ pc' = "done" /\ winner' = w
                  /\ UNCHANGED <<turn_q, final_enqueued, final_player>>
                  /\ hist' = [hist EXCEPT !.phase = "deal", !.before = Before,
                                !.emptied_by = IF emptied_here THEN d.last_taker ELSE @,
                                !.emptied_current = IF emptied_here THEN current ELSE @]
             ELSE /\ turn_q' = e.turn_q
                  /\ final_enqueued' = e.final_enqueued
                  /\ final_player' = e.final_player
                  /\ hist' = [hist EXCEPT !.phase = "deal", !.before = Before, !.scored = e.over,
                                !.emptied_by = IF emptied_here THEN d.last_taker ELSE @,
                                !.emptied_current = IF emptied_here THEN current ELSE @]
                  /\ IF e.over
                     THEN /\ pc' = "done"
                          /\ winner' \in score_game(areas, players, spiral, captain_loc)
                     ELSE pc' = "battle" /\ winner' = winner
    /\ UNCHANGED <<num_players, players, areas, delete_pile, spiral,
                   captain_avail_idx, captain_loc, driverVars>>

---------------------------------------------------------------------------
(* run_simulations *)

SetGame(g) ==
    /\ num_players' = g.num_players
    /\ players' = g.players
    /\ deck' = g.deck
    /\ delete_pile' = <<>>
    /\ hands' = g.hands
    /\ areas' = g.areas
    /\ spiral' = g.spiral
    /\ turn_q' = g.turn_q
    /\ captain_avail_idx' = g.captain_avail_idx
    /\ captain_loc' = None
    /\ final_enqueued' = FALSE
    /\ final_player' = None
    /\ pc' = "battle"
    /\ winner' = NoneStr
    /\ hist' = StartHistory(g.players, g.spiral, g.deck)

\* probs[f] = wins[f] / denom, kept as the pair <<wins[f], denom>>
conditional_probs(w, p) ==
    [f \in Factions |-> <<w[f], IF p[f] > 0 THEN p[f] ELSE 1>>]

\* wins[winner] += 1
record_win(w, won) == [w EXCEPT ![won] = @ + 1]

\* only the faction of the first player is counted
record_participation_first(p, pl) == [p EXCEPT ![pl[0]] = @ + 1]

\* for f in players: participates[f] += 1
record_participation(p, pl) ==
    [f \in Factions |-> p[f] + Cardinality({i \in DOMAIN pl : pl[i] = f})]

\* one iteration of the loop of run_simulations after play_one_game returned;
\* after the last one, the probabilities
RecordGame ==
    /\ pc = "done"
    /\ games_done < runs
    /\ wins' = record_win(wins, winner)
    /\ participates' = record_participation(participates, players)
    /\ games_done' = games_done + 1
    /\ UNCHANGED runs
    /\ IF games_done + 1 < runs
       THEN /\ probs' = probs
            /\ \E seed \in 1..NumBatchSeeds : \E k \in 1..Len(ANOMALIES) :
               \E first \in 0..(num_players - 1) :
                    SetGame(new_game(num_players, seed, ANOMALIES[k], first))
       ELSE /\ probs' = conditional_probs(wins', participates')
            /\ UNCHANGED <<gameVars, hist>>

---------------------------------------------------------------------------
(* Specifications *)

InitWith(n, seed, anomaly, first, r) ==
    LET g == new_game(n, seed, anomaly, first)
    IN /\ num_players = g.num_players
       /\ players = g.players
       /\ deck = g.deck
       /\ delete_pile = <<>>
       /\ hands = g.hands
       /\ areas = g.areas
       /\ spiral = g.spiral
       /\ turn_q = g.turn_q
       /\ captain_avail_idx = g.captain_avail_idx
       /\ captain_loc = None
       /\ final_enqueued = FALSE
       /\ final_player = None
       /\ pc = "battle"
       /\ winner = NoneStr
       /\ hist = StartHistory(g.players, g.spiral, g.deck)
       /\ runs = r
       /\ games_done = 0
       /\ wins = [f \in Factions |-> 0]
       /\ participates = [f \in Factions |-> 0]
       /\ probs = <<>>

\* one game: run_simulations(n, 1, seed)
Init ==
    \E n \in PlayerCounts : \E seed \in 1..NumSeeds :
    \E k \in 1..Len(ANOMALIES) : \E first \in 0..(n - 1) :
        InitWith(n, seed, ANOMALIES[k], first, 1)

\* run_simulations(n, runs, seed) with 1..MaxRuns games
InitBatch ==
    \E n \in PlayerCounts : \E seed \in 1..NumBatchSeeds :
    \E k \in 1..Len(ANOMALIES) : \E first \in 0..(n - 1) : \E r \in 1..MaxRuns :
        InitWith(n, seed, ANOMALIES[k], first, r)

Next ==
    \/ PhaseBattle
    \/ PhaseReinforcement
    \/ PhaseMoveOrAnomaly
    \/ PhaseAttack
    \/ PhaseDeal
    \/ RecordGame

Spec == Init /\ [][Next]_vars

SpecBatch == InitBatch /\ [][Next]_vars

\* the loop of play_one_game and the loop of run_simulations never pause
FairSpec == Init /\ [][Next]_vars /\ WF_vars(Next)

\* the arguments run_simulations is called with, valid or not
ConfigPlayers == (0 - 1)..(Len(FRACTIONS) + 1)
ConfigRuns == (0 - 1)..1

\* rng.sample(FRACTIONS, n) raises ValueError when n is negative or larger than
\* the population; rng.randrange(num_players) raises ValueError when it is 0
raises_value_error(n) == n < 0 \/ n > Len(FRACTIONS) \/ n = 0

\* run_simulations is called: nothing has been set up yet
InitRun ==
    \E n \in ConfigPlayers : \E r \in ConfigRuns :
        /\ num_players = n
        /\ runs = r
        /\ players = <<>>
        /\ deck = <<>>
        /\ delete_pile = <<>>
        /\ hands = <<>>
        /\ areas = <<>>
        /\ spiral = <<>>
        /\ turn_q = <<>>
        /\ captain_avail_idx = None
        /\ captain_loc = None
        /\ final_enqueued = FALSE
        /\ final_player = None
        /\ pc = "run_simulations"
        /\ winner = NoneStr
        /\ hist = StartHistory(<<>>, <<>>, <<>>)
        /\ games_done = 0
        /\ wins = [f \in Factions |-> 0]
        /\ participates = [f \in Factions |-> 0]
        /\ probs = <<>>

\* run_simulations up to the loop of its first game: with no iteration to run the
\* probabilities are returned at once; otherwise play_one_game sets the game up,
\* or one of its draws raises
RunSimulations ==
    /\ pc = "run_simulations"
    /\ UNCHANGED <<runs, games_done, wins, participates>>
    /\ IF runs <= 0
       THEN /\ probs' = conditional_probs(wins, participates)
            /\ pc' = "returned"
            /\ UNCHANGED <<num_players, players, deck, delete_pile, hands, areas, spiral,
                           turn_q, captain_avail_idx, captain_loc, final_enqueued,
                           final_player, winner, hist>>
       ELSE IF raises_value_error(num_players)
       THEN /\ pc' = "ValueError"
            /\ UNCHANGED <<num_players, players, deck, delete_pile, hands, areas, spiral,
                           turn_q, captain_avail_idx, captain_loc, final_enqueued,
                           final_player, winner, hist, probs>>
       ELSE /\ probs' = probs
            /\ \E seed \in 1..NumBatchSeeds : \E k \in 1..Len(ANOMALIES) :
               \E first \in 0..(num_players - 1) :
                    SetGame(new_game(num_players, seed, ANOMALIES[k], first))

NextRun ==
    \/ RunSimulations
    \/ Next

\* run_simulations from its call, with any arguments
SpecRun == InitRun /\ [][NextRun]_vars

---------------------------------------------------------------------------
(* The loop of play_one_game in baseline.py and of play_one_game_epic in    *)
(* epic_mode.py, as far as the order of turns depends on it: the hands, the *)
(* deck, the discard pile and the turn queue.  The colour of a faction card *)
(* plays no part in it, so every faction card is AnyCard, and the zones are *)
(* the number of cards that lie in them.  pc is the engine whose loop runs. *)

AnyCard == "card"

Engines == {"baseline", "epic_mode"}

\* the most players, cards in the deck and cards in the discard pile at the
\* beginning of the turn from which the loop is followed; the cards in the zones
LoopPlayers == 2
LoopDeck == 3
LoopPile == 1
LoopZone == 2

\* deal_cards: the index it returns is set only by the draw that empties the deck
deal_cards(dk, hs, start_idx) ==
    LET r == deal_up_to(dk, hs, start_idx, Cardinality(DOMAIN hs))
    IN [deck |-> r.deck, hands |-> r.hands,
        last_card_taker |-> IF dk # <<>> /\ r.deck = <<>> THEN r.last_taker ELSE None]

\* phase_battle_of_dimensions: every player who holds a faction card reveals one;
\* w of them win and go to the zones, the others go to the discard pile
phase_battle_of_dimensions(st, w) ==
    LET plays == {i \in DOMAIN st.hands : HandGet(st.hands[i], AnyCard) > 0}
    IN [st EXCEPT !.hands = [i \in DOMAIN st.hands |->
                                IF i \in plays THEN HandTake(st.hands[i], AnyCard)
                                ELSE st.hands[i]],
                  !.areas = @ + w,
                  !.delete_pile = @ \o Repeat(AnyCard, Cardinality(plays) - w)]

\* phase_reinforcement: in epic_mode.py a red player whose captain is in reserve
\* may deploy it instead (random.random() < 0.3: deploy); otherwise one faction
\* card of the hand goes to a zone
phase_reinforcement(st, cur, deploy) ==
    IF deploy THEN [st EXCEPT !.captain_loc = cur]
    ELSE IF HandGet(st.hands[cur], AnyCard) > 0
         THEN [st EXCEPT !.hands[cur] = HandTake(@, AnyCard), !.areas = @ + 1]
         ELSE st

\* phase_movement_or_anomaly; play: random.random() < 0.5, and then try_play_anomaly:
\* the anomaly of the hand takes effect and is discarded.  A relocation changes the
\* zones of the cards, not their number.
\*   play_anom_big_bang     the discard pile, which holds faction cards only while
\*                          the game's one anomaly is in a hand, goes under the deck
\*   play_anom_time_loop    turn_queue.appendleft(current_player)
\*   play_anom_black_hole   a squad of b cards goes from the zones to the discard pile
phase_movement_or_anomaly(st, cur, play, b) ==
    LET anoms == HandAnoms(st.hands[cur])
        chosen == CHOOSE a \in anoms : TRUE
        play_anom_big_bang ==
            IF st.delete_pile = <<>> THEN st
            ELSE [st EXCEPT !.deck = @ \o st.delete_pile, !.delete_pile = <<>>]
        play_anom_time_loop == [st EXCEPT !.turn_q = <<cur>> \o @]
        play_anom_black_hole ==
            [st EXCEPT !.areas = @ - b, !.delete_pile = @ \o Repeat(AnyCard, b)]
        after == IF chosen = "anom_big_bang" THEN play_anom_big_bang
                 ELSE IF chosen = "anom_time_loop" THEN play_anom_time_loop
                 ELSE IF chosen = "anom_black_hole" THEN play_anom_black_hole
                 ELSE st
    IN IF ~play \/ anoms = {} THEN st
       ELSE [after EXCEPT !.hands[cur] = HandTake(@, chosen),
                          !.delete_pile = Append(@, chosen)]

\* phase_attack: the defender's card goes to the discard pile ("discard"), or in
\* epic_mode.py becomes an aura when purple attacks ("aura"), or nothing is lost
phase_attack(st, lost) ==
    IF lost = "discard" THEN [st EXCEPT !.areas = @ - 1, !.delete_pile = Append(@, AnyCard)]
    ELSE IF lost = "aura" THEN [st EXCEPT !.areas = @ - 1]
    ELSE st

\* the end of a turn, after deal_cards returned last_taker:
\* [turn_q, final_turn_scheduled, final_turn_player, over].
\* final_turn_scheduled and final_turn_active are both set in the turn in which the
\* last card is taken, so final_turn_active is what final_turn_scheduled was when
\* the turn began
plan_next_turn(q, scheduled, player, last_taker, cur) ==
    LET schedule == last_taker # None /\ ~scheduled
        final_turn_player == IF schedule THEN last_taker ELSE player
        final_turn_scheduled == scheduled \/ schedule
        final_turn_active == scheduled
        q1 == IF final_turn_scheduled /\ ~final_turn_active
              THEN <<final_turn_player>>
              ELSE Tail(q) \o <<Head(q)>>
    IN [turn_q |-> q1,
        final_turn_scheduled |-> final_turn_scheduled,
        final_turn_player |-> final_turn_player,
        over |-> final_turn_scheduled /\ cur = final_turn_player]

\* the game at the beginning of a turn, when cards are left in the deck: every
\* hand is full; `anom` is the game's anomaly, held by player `holder`, or NoneStr
\* when it has been played
InitLoop ==
    \E engine \in Engines : \E n \in 2..LoopPlayers : \E first \in 0..(n - 1) :
    \E d \in 1..LoopDeck : \E ps \in 0..LoopPile :
    \E anom \in AnomalySet \cup {NoneStr} : \E holder \in 0..(n - 1) :
        /\ anom = NoneStr => holder = 0
        /\ num_players = n
        /\ players = [i \in 0..(n - 1) |-> FRACTIONS[i + 1]]
        /\ deck = Repeat(AnyCard, d)
        /\ delete_pile = Repeat(AnyCard, ps)
        /\ hands = [i \in 0..(n - 1) |->
                        IF anom # NoneStr /\ i = holder
                        THEN <<[card |-> AnyCard, cnt |-> TARGET_HAND - 1],
                               [card |-> anom, cnt |-> 1]>>
                        ELSE <<[card |-> AnyCard, cnt |-> TARGET_HAND]>>]
        /\ areas = LoopZone
        /\ spiral = <<>>
        /\ turn_q = [k \in 1..n |-> first + k - 1]
        /\ captain_avail_idx = None
        /\ captain_loc = None
        /\ final_enqueued = FALSE
        /\ final_player = None
        /\ pc = engine
        /\ winner = NoneStr
        /\ hist = StartHistory([i \in 0..(n - 1) |-> FRACTIONS[i + 1]], <<>>,
                               Repeat(AnyCard, d))
        /\ runs = 1
        /\ games_done = 0
        /\ wins = [f \in Factions |-> 0]
        /\ participates = [f \in Factions |-> 0]
        /\ probs = <<>>

\* one pass of the loop.  final_enqueued holds final_turn_scheduled, final_player
\* holds final_turn_player
LoopTurn ==
    /\ pc \in Engines
    /\ \E w \in 0..Cardinality({i \in Zones : HandGet(hands[i], AnyCard) > 0}) :
       \E deploy \in {FALSE} \cup {pc = "epic_mode" /\ players[current] = "red"
                                    /\ captain_loc = None} :
       \E play \in BOOLEAN :
       LET s0 == [hands |-> hands, deck |-> deck, delete_pile |-> delete_pile,
                  areas |-> areas, turn_q |-> turn_q, captain_loc |-> captain_loc]
           s2 == phase_reinforcement(phase_battle_of_dimensions(s0, w), current, deploy)
       IN
       \* the squad a black hole takes, and what the Assault costs the defender
       \E b \in IF play /\ "anom_black_hole" \in HandAnoms(s2.hands[current]) /\ s2.areas > 0
                THEN 1..s2.areas ELSE {0} :
       LET s3 == phase_movement_or_anomaly(s2, current, play, b) IN
       \E lost \in IF s3.areas < 2 THEN {"none"}
                   ELSE IF pc = "epic_mode" THEN {"none", "discard", "aura"}
                   ELSE {"none", "discard"} :
       LET s4 == phase_attack(s3, lost) IN
       \E d \in {deal_cards(s4.deck, s4.hands, current)} :
       \E e \in {plan_next_turn(s4.turn_q, final_enqueued, final_player,
                                 d.last_card_taker, current)} :
            /\ hands' = d.hands
            /\ deck' = d.deck
            /\ delete_pile' = s4.delete_pile
            /\ areas' = s4.areas
            /\ captain_loc' = s4.captain_loc
            /\ turn_q' = e.turn_q
            /\ final_enqueued' = e.final_turn_scheduled
            /\ final_player' = e.final_turn_player
            /\ pc' = IF e.over THEN "done" ELSE pc
            /\ hist' = [hist EXCEPT
                            !.phase = "turn",
                            !.post_turns = IF hist.emptied_by # None
                                           THEN Append(@, current) ELSE @,
                            !.emptied_by = IF d.last_card_taker # None /\ ~final_enqueued
                                           THEN d.last_card_taker ELSE @,
                            !.emptied_current = IF d.last_card_taker # None /\ ~final_enqueued
                                                THEN current ELSE @,
                            !.scored = e.over]
    /\ UNCHANGED <<num_players, players, spiral, captain_avail_idx, winner, driverVars>>

\* play_one_game_epic returns from inside a turn when check_epic_early_win names a
\* winner; nothing of the game is looked at afterwards
EarlyWin ==
    /\ pc = "epic_mode"
    /\ pc' = "done"
    /\ hist' = [hist EXCEPT !.phase = "early_win"]
    /\ UNCHANGED <<num_players, players, deck, delete_pile, hands, areas, spiral, turn_q,
                   captain_avail_idx, captain_loc, final_enqueued, final_player, winner,
                   driverVars>>

\* the loops of baseline.py and epic_mode.py when the deck is about to run out
SpecLoop == InitLoop /\ [][LoopTurn \/ EarlyWin]_vars

---------------------------------------------------------------------------
(* Single calls of the engine's functions, on small boards *)

\* what a board is built from: the four plain colours, two blue cards, an alliance token
UnitKinds == PlainSet \cup {BLUE_CARDS[1], Last(BLUE_CARDS)} \cup {"aura"}

\* the boards of zones Z that hold at most k cards and tokens
RECURSIVE UnitBoards(_, _)
UnitBoards(Z, k) ==
    IF k = 0 THEN {[i \in Z |-> EmptyArea]}
    ELSE LET B == UnitBoards(Z, k - 1)
             put(a, c) == IF c = "aura" THEN [a EXCEPT !.auras = @ + 1]
                          ELSE place_card_in_area(a, c)
         IN B \cup {[b[1] EXCEPT ![b[2]] = put(@, b[3])] : b \in B \X Z \X UnitKinds}

\* the zones the captain can stand in: none unless red plays
UnitCaptainLocs(pl) ==
    {None} \cup (IF \E i \in DOMAIN pl : pl[i] = "red" THEN DOMAIN pl ELSE {})

\* n factions in a row of FRACTIONS taken round, from its k-th on, one per player
UnitPlayers(n, k) == [i \in 0..(n - 1) |-> FRACTIONS[((i + k) % Len(FRACTIONS)) + 1]]

\* the state in which function `call` is entered; rev: the revealed cards or colours
CallStateWith(call, pl, ar, cap, pile, dk, sp, rev) ==
    LET n == Cardinality(DOMAIN pl)
        red_at == {i \in DOMAIN pl : pl[i] = "red"}
    IN /\ num_players = n
       /\ players = pl
       /\ deck = dk
       /\ delete_pile = pile
       /\ hands = [i \in DOMAIN pl |-> <<>>]
       /\ areas = ar
       /\ spiral = sp
       /\ turn_q = [k \in 1..n |-> k - 1]
       /\ captain_avail_idx = IF red_at = {} \/ cap # None THEN None ELSE MinOf(red_at)
       /\ captain_loc = cap
       /\ final_enqueued = FALSE
       /\ final_player = None
       /\ pc = call
       /\ winner = NoneStr
       /\ hist = [StartHistory(pl, sp, dk) EXCEPT !.phase = "call", !.revealed = rev]
       /\ runs = 1
       /\ games_done = 0
       /\ wins = [f \in Factions |-> 0]
       /\ participates = [f \in Factions |-> 0]
       /\ probs = <<>>

CallState(call, pl, ar, cap, pile, dk, sp) ==
    CallStateWith(call, pl, ar, cap, pile, dk, sp, [i \in DOMAIN pl |-> NoneStr])

\* the orders of the five factions make_spiral's shuffle can produce
Spirals == {[k \in 1..Len(FRACTIONS) |-> f[FRACTIONS[k]]] : f \in Permutations(Factions)}

\* the plays of a Clash in which the colours U are revealed, one card per colour
RevealedCards(U) ==
    [i \in 0..(Len(FRACTIONS) - 1) |->
        IF FRACTIONS[i + 1] \notin U THEN NoneStr
        ELSE IF FRACTIONS[i + 1] = "blue" THEN BLUE_CARDS[1] ELSE FRACTIONS[i + 1]]

\* what a discard pile is built from: faction cards, a played anomaly, the marker
\* of a removed alliance token
UnitDiscards == {"red", "purple", BLUE_CARDS[1], ANOMALIES[1], "aura_back"}

\* the discard piles of at most k entries
RECURSIVE UnitPiles(_)
UnitPiles(k) ==
    IF k = 0 THEN {<<>>}
    ELSE UnitPiles(k - 1) \cup {Append(p[1], p[2]) : p \in UnitPiles(k - 1) \X UnitDiscards}

\* the decks: what is left of an initial deck, down to its last cards
UnitDecks == {SubSeq(init_deck(ANOMALIES[1], 1), 1, m) : m \in 0..UnitCards}

\* zones at and next to the instant wins: green short of and at GREEN_INSTANT, no
\* yellow card, one, or one short of YELLOW_INSTANT, blue values short of and at BLUE_GOAL
InstantZones ==
    {[counts |-> [c \in PlainSet |-> IF c = "green" THEN g ELSE IF c = "yellow" THEN y ELSE 0],
      blue_values |-> b, auras |-> 0] :
        g \in {GREEN_NEAR_WIN, GREEN_INSTANT}, y \in {0, 1, YELLOW_INSTANT - 1},
        b \in {<<23>>, <<13, 29>>}}

\* boards on which the players are level: c cards of each player's faction in that
\* player's zone, c0 cards in the zone of player 0
LevelBoard(pl, c, c0) ==
    [i \in DOMAIN pl |->
        LET m == IF i = 0 THEN c0 ELSE c
        IN [counts |-> [f \in PlainSet |-> IF f = pl[i] THEN m ELSE 0],
            blue_values |-> IF pl[i] = "blue" THEN SubSeq(BLUE_VALUES, 1, m) ELSE <<>>,
            auras |-> 0]]

InitCalls ==
    \/ \E sp \in Spirals : \E U \in (SUBSET Factions) \ {{}} :
           CallStateWith("tiebreak_by_spiral", UnitPlayers(Len(FRACTIONS), 0),
                         [i \in 0..(Len(FRACTIONS) - 1) |-> EmptyArea], None, <<>>, <<>>, sp,
                         RevealedCards(U))
    \/ \E n \in PlayerCounts : \E k \in 0..(Len(FRACTIONS) - 1) :
       \E seed \in 1..NumBatchSeeds : \E c, c0 \in 0..UnitCards :
       \E cap \in UnitCaptainLocs(UnitPlayers(n, k)) :
           CallState("score_game", UnitPlayers(n, k), LevelBoard(UnitPlayers(n, k), c, c0),
                     cap, <<>>, <<>>, make_spiral(seed))
    \/ \E ar \in [0..(UnitZones - 1) -> InstantZones] :
           CallState("check_instants", UnitPlayers(UnitZones, 0), ar, None, <<>>, <<>>,
                     make_spiral(1))
    \/ \E call \in {"anom_black_hole", "anom_wormhole"} :
       \E ar \in UnitBoards(0..(UnitZones - 1), UnitCards) :
       \E cap \in UnitCaptainLocs(UnitPlayers(UnitZones, 0)) :
       \E pile \in UnitPiles(1) :
           CallState(call, UnitPlayers(UnitZones, 0), ar, cap, pile, <<>>, make_spiral(1))
    \/ \E k \in 0..(Len(FRACTIONS) - 1) : \E seed \in 1..NumBatchSeeds :
       \E ar \in UnitBoards(0..(UnitZones - 1), UnitCards) :
       \E cap \in UnitCaptainLocs(UnitPlayers(UnitZones, k)) :
           CallState("score_game", UnitPlayers(UnitZones, k), ar, cap, <<>>, <<>>,
                     make_spiral(seed))
    \/ \E pile \in UnitPiles(UnitPile) : \E dk \in UnitDecks :
           CallState("anom_big_bang", UnitPlayers(UnitZones, 0),
                     [i \in 0..(UnitZones - 1) |-> EmptyArea], None, pile, dk, make_spiral(1))
    \/ \E sp \in Spirals : \E U \in (SUBSET Factions) \ {{}} :
           CallStateWith("first_wins_among", UnitPlayers(Len(FRACTIONS), 0),
                         [i \in 0..(Len(FRACTIONS) - 1) |-> EmptyArea], None, <<>>, <<>>, sp,
                         RevealedCards(U))

Returned(call) ==
    /\ pc' = "returned"
    /\ hist' = [hist EXCEPT !.phase = call, !.before = Before]

CallBlackHole ==
    /\ pc = "anom_black_hole"
    /\ \E r \in anom_black_hole(areas, delete_pile, captain_loc) :
            /\ areas' = r.areas
            /\ delete_pile' = r.delete_pile
    /\ Returned("anom_black_hole")
    /\ UNCHANGED <<num_players, players, deck, hands, spiral, turn_q, captain_avail_idx,
                   captain_loc, final_enqueued, final_player, winner, driverVars>>

CallWormhole ==
    /\ pc = "anom_wormhole"
    /\ areas' \in anom_wormhole(areas, captain_loc)
    /\ Returned("anom_wormhole")
    /\ UNCHANGED <<num_players, players, deck, delete_pile, hands, spiral, turn_q,
                   captain_avail_idx, captain_loc, final_enqueued, final_player, winner,
                   driverVars>>

CallFirstWinsAmong ==
    /\ pc = "first_wins_among"
    /\ pc' = "returned"
    /\ hist' = [hist EXCEPT !.phase = "first_wins_among", !.before = Before,
                            !.winners = clash_winners(hist.revealed, spiral)]
    /\ UNCHANGED <<num_players, players, deck, delete_pile, hands, areas, spiral, turn_q,
                   captain_avail_idx, captain_loc, final_enqueued, final_player, winner,
                   driverVars>>

\* the candidates are the colours of hist.revealed
CallTiebreakBySpiral ==
    /\ pc = "tiebreak_by_spiral"
    /\ pc' = "returned"
    /\ hist' = [hist EXCEPT
                  !.phase = "tiebreak_by_spiral", !.before = Before,
                  !.winners = tiebreak_by_spiral(
                      {card_color(hist.revealed[i]) : i \in DOMAIN hist.revealed} \ {NoneStr},
                      spiral)]
    /\ UNCHANGED <<num_players, players, deck, delete_pile, hands, areas, spiral, turn_q,
                   captain_avail_idx, captain_loc, final_enqueued, final_player, winner,
                   driverVars>>

CallBigBang ==
    /\ pc = "anom_big_bang"
    /\ \E k \in 1..NumShuffles :
         deck' = Shuffle(anom_big_bang(deck, delete_pile).deck, k, 0)
    /\ delete_pile' = anom_big_bang(deck, delete_pile).delete_pile
    /\ Returned("anom_big_bang")
    /\ UNCHANGED <<num_players, players, hands, areas, spiral, turn_q, captain_avail_idx,
                   captain_loc, final_enqueued, final_player, winner, driverVars>>

\* hist.winners: every faction score_game can return here
CallScoreGame ==
    /\ pc = "score_game"
    /\ winner' \in score_game(areas, players, spiral, captain_loc)
    /\ pc' = "returned"
    /\ hist' = [hist EXCEPT !.phase = "score_game", !.before = Before,
                            !.winners = score_game(areas, players, spiral, captain_loc)]
    /\ UNCHANGED <<num_players, players, deck, delete_pile, hands, areas, spiral, turn_q,
                   captain_avail_idx, captain_loc, final_enqueued, final_player, driverVars>>

CallCheckInstants ==
    /\ pc = "check_instants"
    /\ winner' = check_instants(areas)
    /\ Returned("check_instants")
    /\ UNCHANGED <<num_players, players, deck, delete_pile, hands, areas, spiral, turn_q,
                   captain_avail_idx, captain_loc, final_enqueued, final_player, driverVars>>

NextCalls ==
    \/ CallCheckInstants
    \/ CallBlackHole
    \/ CallWormhole
    \/ CallBigBang
    \/ CallScoreGame
    \/ CallFirstWinsAmong
    \/ CallTiebreakBySpiral

SpecCalls == InitCalls /\ [][NextCalls]_vars

---------------------------------------------------------------------------
(* The last turns of a game of two.  The deck is down to at most UnitCards     *)
(* cards, the discard pile holds up to UnitPile cards of one player's faction, *)
(* and the player whose turn begins holds the Big Bang.  A deck that is empty  *)
(* was emptied by deal_up_to: the final turn is then scheduled, and the game   *)
(* goes on only when it belongs to the player whose turn begins.               *)

InitEndgame ==
    \E k \in 0..(Len(FRACTIONS) - 1) : \E first \in 0..1 : \E owner \in 0..1 :
    \E m \in 0..UnitCards : \E j \in 0..UnitPile : \E extra \in BOOLEAN :
        LET pl == UnitPlayers(2, k)
            red_at == {i \in DOMAIN pl : pl[i] = "red"}
            dk == Repeat("green", m)
            held == (IF extra THEN <<[card |-> "red", cnt |-> 1]>> ELSE <<>>)
                    \o <<[card |-> "anom_big_bang", cnt |-> 1]>>
        IN /\ num_players = 2
           /\ players = pl
           /\ deck = dk
           /\ delete_pile = IF pl[owner] = "blue" THEN SubSeq(BLUE_CARDS, 1, j)
                                                  ELSE Repeat(pl[owner], j)
           /\ hands = [i \in DOMAIN pl |->
                          IF i = first THEN held ELSE <<[card |-> "yellow", cnt |-> 1]>>]
           /\ areas = [i \in DOMAIN pl |-> EmptyArea]
           /\ spiral = make_spiral(1)
           /\ turn_q = IF m = 0 THEN <<first, first + 1, first>> ELSE <<first, first + 1>>
           /\ captain_avail_idx = IF red_at = {} THEN None ELSE MinOf(red_at)
           /\ captain_loc = None
           /\ final_enqueued = (m = 0)
           /\ final_player = IF m = 0 THEN first ELSE None
           /\ pc = "battle"
           /\ winner = NoneStr
           /\ hist = IF m = 0
                     THEN [StartHistory(pl, make_spiral(1), dk)
                              EXCEPT !.phase = "deal", !.emptied_by = first,
                                     !.emptied_current = first]
                     ELSE StartHistory(pl, make_spiral(1), dk)
           /\ runs = 1
           /\ games_done = 0
           /\ wins = [f \in Factions |-> 0]
           /\ participates = [f \in Factions |-> 0]
           /\ probs = <<>>

SpecEndgame == InitEndgame /\ [][Next]_vars

---------------------------------------------------------------------------
(* Properties *)

Contenders == {players[i] : i \in Zones}

RECURSIVE SumOver(_, _)
SumOver(f, S) ==
    IF S = {} THEN 0
    ELSE LET x == CHOOSE y \in S : TRUE IN f[x] + SumOver(f, S \ {x})

\* the cards and alliance tokens lying in zone i
ZoneCards(i) ==
    SumOver(areas[i].counts, PlainSet) + Len(areas[i].blue_values) + areas[i].auras

CardsInGame ==
    Len(deck) + SumOver([i \in Zones |-> HandSize(hands[i])], Zones)
    + SumOver([i \in Zones |-> ZoneCards(i)], Zones) + Len(delete_pile)

\* C1: at every phase boundary the cards of the deck, of all hands, of all zones
\* (blue cards and outstanding alliance tokens included) and of the discard pile
\* (markers of removed alliance tokens included) add up to the 56 cards of the
\* initial deck.
CardConservation ==
    CardsInGame = Len(init_deck(ANOMALIES[1], 1))

\* C2: when the game is over, the winner is one of the factions that were
\* assigned to a player of that game.
WinnerIsContender ==
    pc = "done" => winner \in Contenders

\* C3: when player p makes the Recovery draw that empties the deck and the game
\* ends by scoring, exactly one more turn was played after that draw, and its
\* current player was p.
FinalTurnRule ==
    (pc = "done" /\ hist.scored /\ hist.emptied_by # None)
        => hist.post_turns = <<hist.emptied_by>>

GreenHolds == \E i \in Zones : ~ (areas[i].counts["green"] < 5)

YellowHolds ==
    /\ \A i \in Zones : areas[i].counts["yellow"] > 0
    /\ SumOver([i \in Zones |-> areas[i].counts["yellow"]], Zones) >= 5

BlueHolds ==
    \E i \in Zones :
        SumOver([k \in DOMAIN areas[i].blue_values |-> areas[i].blue_values[k]],
                DOMAIN areas[i].blue_values) = 42

\* the faction the instant-win check names: green before yellow before blue
InstantWinner ==
    IF GreenHolds THEN "green"
    ELSE IF YellowHolds THEN "yellow"
    ELSE IF BlueHolds THEN "blue"
    ELSE NoneStr

\* C4: whenever an instant-win predicate holds at the end of a phase, the game
\* is over at that point and its winner is the faction of that predicate; the
\* game was not scored, and the game is scored only where no instant-win
\* predicate holds.
InstantWinEndsGame ==
    /\ InstantWinner # NoneStr
         => pc = "done" /\ winner = InstantWinner /\ ~ hist.scored
    /\ hist.scored => InstantWinner = NoneStr

\* an instant win in the middle of a turn, found after the Reinforcement phase
InstantWinMidTurn ==
    pc = "done" /\ InstantWinner # NoneStr /\ hist.phase = "reinforcement"

\* C5: the green predicate is true exactly when some zone holds five or more
\* green cards, the yellow one exactly when every zone holds a yellow card and
\* all zones together hold five or more, the blue one exactly when the blue
\* values of some zone add up to 42; the instant-win check never names red or
\* purple.
InstantPredicatesMatch ==
    /\ check_green_instant(areas) = GreenHolds
    /\ check_yellow_instant(areas) = YellowHolds
    /\ check_blue_instant(areas) = BlueHolds
    /\ check_instants(areas) \in {"green", "yellow", "blue", NoneStr}
    /\ (pc = "done" /\ ~ hist.scored) => winner \in {"green", "yellow", "blue"}

\* the game ended on yellow's instant win, green's and blue's predicates false
YellowInstantWin ==
    /\ pc = "done" /\ ~ hist.scored /\ winner = "yellow"
    /\ check_yellow_instant(areas) /\ YellowHolds
    /\ ~ check_green_instant(areas) /\ ~ check_blue_instant(areas)

\* the deck is smaller at the end of every turn that began with cards in it
\* (the original reading of C6)
DeckShrinksEachTurn ==
    (hist.phase = "deal" /\ hist.turn_deck > 0) => Len(deck) < hist.turn_deck

\* C6: every game of 2 to 5 players terminates: the deck is smaller at the end
\* of every turn that began with cards in it and in which the Big Bang was not
\* played, and at most two turns begin after the draw that empties the deck.
GameTerminates ==
    /\ <>(pc = "done")
    /\ []((hist.phase = "deal" /\ hist.turn_deck > 0 /\ hist.played # "anom_big_bang")
              => Len(deck) < hist.turn_deck)
    /\ [](Len(hist.post_turns) <= 2)

\* a game in which the Big Bang refilled the deck has ended by scoring
ScoredAfterBigBang ==
    pc = "done" /\ hist.scored /\ "anom_big_bang" \in Range(delete_pile)

\* C7: in a batch of N five-player games, after any number of completed games
\* wins[f] <= participates[f] <= N for every faction f, and after all N games
\* participates[f] = N > 0.
BatchTallies ==
    num_players = 5 =>
        \A f \in Factions :
            /\ wins[f] <= participates[f]
            /\ participates[f] <= runs
            /\ participates[f] = games_done
            /\ games_done = runs => participates[f] = runs /\ runs > 0

\* a batch of two five-player games is complete
FivePlayerBatchDone ==
    num_players = 5 /\ runs = 2 /\ games_done = runs /\ DOMAIN probs = Factions

\* C8: run_simulations returns, for every faction that took part in a game, its
\* wins divided by its participations, and 0 for a faction that took part in none.
ProbabilitiesConditional ==
    DOMAIN probs = Factions =>
        \A f \in Factions :
            IF participates[f] > 0
            THEN probs[f] = <<wins[f], participates[f]>>
            ELSE probs[f][1] = 0

\* the factions f dominates, and the factions that dominate f
Dominated(f) == {g \in Factions : beats(f, g, spiral)}
Dominators(f) == {g \in Factions : beats(g, f, spiral)}

\* C9: every spiral the game reaches, the initial one or one after a swap, is a
\* permutation of the five factions in which no faction dominates itself and
\* every faction dominates exactly one other and is dominated by exactly one
\* other; a swap exchanges the factions of two distinct positions and leaves
\* the other three where they were.
SpiralWellFormed ==
    /\ Len(spiral) = 5
    /\ \A f \in Factions : Cardinality({k \in 1..Len(spiral) : spiral[k] = f}) = 1
    /\ \A f \in Factions :
        /\ ~ beats(f, f, spiral)
        /\ Cardinality(Dominated(f)) = 1
        /\ Cardinality(Dominators(f)) = 1
    /\ hist.played = "anom_quantum_entanglement" =>
        \E i, j \in 1..Len(spiral) :
            /\ i # j
            /\ spiral[i] = hist.spiral_before[j]
            /\ spiral[j] = hist.spiral_before[i]
            /\ \A k \in 1..Len(spiral) \ {i, j} : spiral[k] = hist.spiral_before[k]

\* the spiral after a swap
SpiralSwapped ==
    hist.played = "anom_quantum_entanglement" /\ spiral # hist.spiral_before

\* C10: the factions assigned to the players are pairwise distinct, each player
\* has exactly one of the five factions, and the assignment made when the game
\* was set up is the assignment at every later point of the game.
AssignmentFixed ==
    /\ num_players \in 2..5
    /\ DOMAIN players = 0..(num_players - 1)
    /\ \A i \in Zones : players[i] \in Factions
    /\ \A i, j \in Zones : i # j => players[i] # players[j]
    /\ players = hist.assigned

\* a five-player game has been played to its end
FivePlayerGameScored ==
    pc = "done" /\ hist.scored /\ num_players = 5 /\ players = hist.assigned

---------------------------------------------------------------------------
(* Single calls *)

\* board b holds the deployed captain and nothing else
OnlyCaptain(b) ==
    /\ b.captain_loc # None
    /\ \A i \in DOMAIN b.areas :
          /\ \A c \in PlainSet : b.areas[i].counts[c] = 0
          /\ b.areas[i].blue_values = <<>>
          /\ b.areas[i].auras = 0

\* C11: on a board whose only presence is the deployed captain, the black hole and the
\* wormhole leave the zones, the discard pile and the captain's zone as they were
CaptainAloneUntouched ==
    (pc = "returned" /\ hist.phase \in {"anom_black_hole", "anom_wormhole"}
       /\ OnlyCaptain(hist.before))
    => /\ areas = hist.before.areas
       /\ delete_pile = hist.before.delete_pile
       /\ captain_loc = hist.before.captain_loc

BlackHoleOnCaptainAlone ==
    pc = "returned" /\ hist.phase = "anom_black_hole" /\ OnlyCaptain(hist.before)

---------------------------------------------------------------------------
(* The captain *)

\* C12: once the captain stands in a zone, no step of the game moves it, clears it
\* or deploys it again
CaptainDeployedOnce ==
    [][captain_loc # None => (captain_loc' = captain_loc
                              /\ hist'.deployments = hist.deployments)]_vars

\* an assault took a card from the zone the captain stands in
AssaultBesideCaptain ==
    /\ hist.phase = "attack"
    /\ hist.before.captain_loc # None
    /\ areas[captain_loc] # hist.before.areas[captain_loc]

---------------------------------------------------------------------------
(* Scoring *)

\* the presence of faction c on the board: its cards in every zone, the deployed
\* captain for red, every alliance token for purple
Presence(c) ==
    SumOver([i \in Zones |-> IF c = "blue" THEN Len(areas[i].blue_values)
                             ELSE areas[i].counts[c]], Zones)
    + (IF c = "red" /\ captain_loc # None THEN 1 ELSE 0)
    + (IF c = "purple" THEN SumOver([i \in Zones |-> areas[i].auras], Zones) ELSE 0)

Leaders == {c \in Contenders : \A d \in Contenders : Presence(d) <= Presence(c)}

Scored == pc = "returned" /\ hist.phase = "score_game"

\* C13: when exactly two contenders share the largest total and one of them dominates
\* the other in the spiral, score_game returns the dominating one
TieBrokenBySpiral ==
    Scored => \A a, b \in Contenders :
                 (a # b /\ Leaders = {a, b} /\ beats(a, b, spiral)) => winner = a

TwoWayTieScored ==
    /\ Scored
    /\ Presence(winner) > 0
    /\ \E b \in Contenders \ {winner} : Leaders = {winner, b} /\ beats(winner, b, spiral)

\* C14: score_game returns a contender whose presence is the largest among the
\* contenders, and the only such contender when there is one
ScoreGameReturnsLeader ==
    Scored => winner \in Leaders

CaptainDecidesScore ==
    /\ Scored
    /\ Leaders = {"red"}
    /\ \E d \in Contenders : d # "red" /\ Presence(d) = Presence("red") - 1

---------------------------------------------------------------------------
(* The Clash *)

\* d comes right after c in the spiral, taken round
Follows(c, d) ==
    \E k \in 1..Len(spiral) : spiral[k] = c /\ spiral[(k % Len(spiral)) + 1] = d

RevealedColours == {card_color(hist.revealed[i]) : i \in DOMAIN hist.revealed} \ {NoneStr}

\* C15: first_wins_among returns the revealed colour when only one colour is revealed,
\* and otherwise exactly the revealed colours that dominate another revealed colour
\* and are dominated by none
ClashWinnerRule ==
    (pc = "returned" /\ hist.phase = "first_wins_among")
    => IF Cardinality(RevealedColours) = 1 THEN hist.winners = RevealedColours
       ELSE \A c \in Factions :
              c \in hist.winners
              <=> /\ c \in RevealedColours
                  /\ \E d \in RevealedColours \ {c} : Follows(c, d)
                  /\ ~ \E d \in RevealedColours \ {c} : Follows(d, c)

ChainOfThreeHasOneWinner ==
    /\ pc = "returned" /\ hist.phase = "first_wins_among"
    /\ Cardinality(RevealedColours) = 3
    /\ Cardinality(hist.winners) = 1
    /\ \E c \in RevealedColours \ hist.winners : \E d \in RevealedColours : Follows(c, d)

\* the players whose revealed card did not win the last Clash
ClashLosers ==
    {i \in Zones : hist.revealed[i] # NoneStr /\ card_color(hist.revealed[i]) \notin hist.winners}

\* what the last phase appended to the discard pile
Discarded ==
    SubSeq(delete_pile, Len(hist.before.delete_pile) + 1, Len(delete_pile))

\* C16: after the Clash every revealed card of a winning colour lies in the zone of the
\* player who revealed it, and every other revealed card has been added to the
\* discard pile
ClashCardsMoved ==
    hist.phase = "battle"
    => /\ \A i \in Zones \ ClashLosers :
            areas[i] = IF hist.revealed[i] = NoneStr THEN hist.before.areas[i]
                       ELSE place_card_in_area(hist.before.areas[i], hist.revealed[i])
       /\ \A i \in ClashLosers : areas[i] = hist.before.areas[i]
       /\ Len(Discarded) = Cardinality(ClashLosers)
       /\ \A i \in ClashLosers :
            Cardinality({k \in DOMAIN Discarded : Discarded[k] = hist.revealed[i]})
            = Cardinality({j \in ClashLosers : hist.revealed[j] = hist.revealed[i]})

---------------------------------------------------------------------------
(* The Assault *)

\* the cards of colour c in zone a, the captain left out
SquadCards(a, c) == IF c = "blue" THEN Len(a.blue_values) ELSE a.counts[c]

\* the size of the squad of colour c in the current player's zone when the phase began
SquadSizeBefore(c) ==
    SquadCards(hist.before.areas[current], c)
    + (IF c = "red" /\ hist.before.captain_loc = current THEN 1 ELSE 0)

\* the colours that lost a card in the current player's zone during the last phase
LostColours ==
    {c \in Factions : SquadCards(areas[current], c) < SquadCards(hist.before.areas[current], c)}

CardsLost ==
    SumOver([c \in Factions |-> SquadCards(hist.before.areas[current], c)
                                - SquadCards(areas[current], c)], Factions)

\* C17: an Assault changes nothing but the current player's zone and the discard pile,
\* takes at most one card from that zone, and takes a card of the defending colour
\* only when the attacking squad (the captain counted for red) is strictly larger
\* than the defending one or the attacking colour dominates the defending colour;
\* the captain stays
AssaultEffect ==
    hist.phase = "attack"
    => /\ \A i \in Zones \ {current} : areas[i] = hist.before.areas[i]
       /\ hands = hist.before.hands /\ deck = hist.before.deck
       /\ captain_loc = hist.before.captain_loc
       /\ \A c \in Factions :
            SquadCards(areas[current], c) <= SquadCards(hist.before.areas[current], c)
       /\ CardsLost <= 1
       /\ Len(Discarded) <= 1
       /\ SubSeq(delete_pile, 1, Len(hist.before.delete_pile)) = hist.before.delete_pile
       /\ \A c \in LostColours :
            /\ hist.assault # <<>> /\ hist.assault[2] = c
            /\ \/ SquadSizeBefore(hist.assault[1]) > SquadSizeBefore(c)
               \/ Follows(hist.assault[1], c)

\* an Assault won by size alone, the captain making the difference
AssaultWonByCaptain ==
    /\ hist.phase = "attack"
    /\ LostColours # {}
    /\ hist.assault[1] = "red"
    /\ ~Follows("red", hist.assault[2])
    /\ SquadSizeBefore("red") = SquadSizeBefore(hist.assault[2]) + 1
    /\ hist.before.captain_loc = current

\* C18, as the code has it: the card an Assault takes becomes an alliance token of the
\* zone exactly when the attacking colour is purple, whoever the current player is;
\* otherwise it is appended to the discard pile and no token appears
TokenWhenPurpleAttacks ==
    hist.phase = "attack"
    => IF LostColours = {}
       THEN /\ areas[current].auras = hist.before.areas[current].auras
            /\ delete_pile = hist.before.delete_pile
       ELSE IF hist.assault[1] = "purple"
       THEN /\ areas[current].auras = hist.before.areas[current].auras + 1
            /\ delete_pile = hist.before.delete_pile
       ELSE /\ areas[current].auras = hist.before.areas[current].auras
            /\ Len(Discarded) = 1
            /\ card_color(Discarded[1]) \in LostColours

\* C18, as stated: the token appears exactly when the current player's faction is purple
TokenWhenPurplePlayerAttacks ==
    (hist.phase = "attack" /\ LostColours # {})
    => (areas[current].auras = hist.before.areas[current].auras + 1
        <=> players[current] = "purple")

TokenForOtherPlayer ==
    /\ hist.phase = "attack"
    /\ LostColours # {}
    /\ areas[current].auras = hist.before.areas[current].auras + 1
    /\ players[current] # "purple"

---------------------------------------------------------------------------
(* Recovery *)

\* the k-th player Recovery serves (k = 0 for the player whose turn it was)
Served(k) == (hist.before.current + k) % num_players

\* the cards the k-th served player drew
Drew(k) == HandSize(hands[Served(k)]) - HandSize(hist.before.hands[Served(k)])

\* the cards drawn before the k-th served player's turn to draw
RECURSIVE DrewBefore(_)
DrewBefore(k) == IF k = 0 THEN 0 ELSE DrewBefore(k - 1) + Drew(k - 1)

\* the j-th card Recovery took from the deck (the deck gives its last card first)
Popped(j) == hist.before.deck[Len(hist.before.deck) - j + 1]

\* C19: Recovery serves the current player first and then the others in the order of
\* play, fills each hand to TARGET_HAND before the next player draws, and stops when
\* the deck is exhausted: afterwards every hand holds TARGET_HAND cards or the deck
\* is empty
RecoveryOrderAndFill ==
    hist.phase = "deal"
    => /\ deck = SubSeq(hist.before.deck, 1, Len(deck))
       /\ DrewBefore(num_players) = Len(hist.before.deck) - Len(deck)
       /\ \A k \in 0..(num_players - 1) :
            /\ Drew(k) >= 0
            /\ HandSize(hands[Served(k)]) <= TARGET_HAND
            /\ (\E m \in (k + 1)..(num_players - 1) : Drew(m) > 0)
                  => HandSize(hands[Served(k)]) = TARGET_HAND
            /\ \A c \in PlainSet \cup BlueCardSet \cup AnomalySet :
                 HandGet(hands[Served(k)], c)
                 = HandGet(hist.before.hands[Served(k)], c)
                   + Cardinality({j \in 1..Drew(k) : Popped(DrewBefore(k) + j) = c})
       /\ \/ \A i \in Zones : HandSize(hands[i]) = TARGET_HAND
          \/ deck = <<>>

\* the deck ran out while a hand was still short, after two players had drawn
DeckRanOutInRecovery ==
    /\ hist.phase = "deal"
    /\ deck = <<>>
    /\ \E i \in Zones : HandSize(hands[i]) < TARGET_HAND
    /\ Cardinality({k \in 0..(num_players - 1) : Drew(k) > 0}) >= 2

---------------------------------------------------------------------------
(* The Big Bang *)

\* how many times card c occurs in list s
Occurrences(s, c) == Cardinality({k \in DOMAIN s : s[k] = c})

\* the entries of list s that are faction cards, plain or blue
FactionCards(s) == {k \in DOMAIN s : card_color(s[k]) \in Factions}

\* C20: the Big Bang moves every faction card of the discard pile into the deck, which
\* grows by exactly their number; the discard pile keeps its anomaly cards and its
\* markers of removed alliance tokens, and no faction card
BigBangReturnsFactionCards ==
    (pc = "returned" /\ hist.phase = "anom_big_bang")
    => /\ Len(deck) = Len(hist.before.deck) + Cardinality(FactionCards(hist.before.delete_pile))
       /\ \A c \in PlainSet \cup BlueCardSet :
            Occurrences(deck, c) = Occurrences(hist.before.deck, c)
                                   + Occurrences(hist.before.delete_pile, c)
       /\ FactionCards(delete_pile) = {}
       /\ \A c \in AnomalySet \cup {"aura_back"} :
            Occurrences(delete_pile, c) = Occurrences(hist.before.delete_pile, c)
       /\ Len(delete_pile)
          = Len(hist.before.delete_pile) - Cardinality(FactionCards(hist.before.delete_pile))

MixedPileReset ==
    /\ pc = "returned" /\ hist.phase = "anom_big_bang"
    /\ Occurrences(hist.before.delete_pile, BLUE_CARDS[1]) = 1
    /\ Occurrences(hist.before.delete_pile, "red") = 1
    /\ Occurrences(delete_pile, "aura_back") = 1
    /\ hist.before.deck # <<>>

---------------------------------------------------------------------------
(* The wormhole and the black hole *)

\* the cards of colour c on the whole board b
BoardCards(b, c) == SumOver([i \in DOMAIN b |-> SquadCards(b[i], c)], DOMAIN b)

\* what is outside the zones did not change during the last call or phase
RestUntouched ==
    /\ captain_loc = hist.before.captain_loc
    /\ deck = hist.before.deck
    /\ hands = hist.before.hands

\* C21: on a board with an ordinary squad the wormhole empties exactly one (zone,
\* colour) squad and adds all its cards to another zone; the total of every colour,
\* every other squad, the alliance tokens, the captain, the deck, the hands and the
\* discard pile stay as they were
WormholeMovesOneSquad ==
    (/\ pc = "returned" /\ hist.phase = "anom_wormhole"
     /\ \E c \in Factions : BoardCards(hist.before.areas, c) > 0)
    => /\ \E i \in Zones : \E dst \in Zones \ {i} : \E c \in Factions :
            /\ SquadCards(hist.before.areas[i], c) > 0
            /\ SquadCards(areas[i], c) = 0
            /\ SquadCards(areas[dst], c)
               = SquadCards(hist.before.areas[dst], c) + SquadCards(hist.before.areas[i], c)
            /\ c = "blue" => areas[dst].blue_values
                              = hist.before.areas[dst].blue_values
                                \o hist.before.areas[i].blue_values
            /\ \A j \in Zones : \A d \in Factions :
                 (d # c \/ j \notin {i, dst})
                 => /\ SquadCards(areas[j], d) = SquadCards(hist.before.areas[j], d)
                    /\ d = "blue" => areas[j].blue_values = hist.before.areas[j].blue_values
       /\ \A c \in Factions : BoardCards(areas, c) = BoardCards(hist.before.areas, c)
       /\ \A j \in Zones : areas[j].auras = hist.before.areas[j].auras
       /\ delete_pile = hist.before.delete_pile
       /\ RestUntouched

\* the wormhole took two ordinary red cards away from the captain's zone
RedSquadLeftCaptain ==
    /\ pc = "returned" /\ hist.phase = "anom_wormhole"
    /\ captain_loc # None
    /\ hist.before.areas[captain_loc].counts["red"] = 2
    /\ areas[captain_loc].counts["red"] = 0

\* the units of kind t (a colour, or "aura" for the alliance tokens) in zone a
Units(a, t) == IF t = "aura" THEN a.auras ELSE SquadCards(a, t)

\* C22: on a board with a target the black hole sets exactly one (zone, colour or token)
\* squad to zero and appends one entry to the discard pile for every unit removed, the
\* cards of a colour squad or a marker for every alliance token; every other squad, the
\* captain, the deck and the hands stay as they were
BlackHoleRemovesOneSquad ==
    (/\ pc = "returned" /\ hist.phase = "anom_black_hole"
     /\ \E i \in Zones : \E t \in Factions \cup {"aura"} : Units(hist.before.areas[i], t) > 0)
    => /\ \E i \in Zones : \E t \in Factions \cup {"aura"} :
            /\ Units(hist.before.areas[i], t) > 0
            /\ Units(areas[i], t) = 0
            /\ \A j \in Zones : \A u \in Factions \cup {"aura"} :
                 <<j, u>> # <<i, t>>
                 => /\ Units(areas[j], u) = Units(hist.before.areas[j], u)
                    /\ u = "blue" => areas[j].blue_values = hist.before.areas[j].blue_values
            /\ Len(Discarded) = Units(hist.before.areas[i], t)
            /\ \A k \in DOMAIN Discarded :
                 Discarded[k] = IF t = "aura" THEN "aura_back"
                                ELSE IF t = "blue"
                                THEN blue_card(hist.before.areas[i].blue_values[
                                                 Len(Discarded) - k + 1])
                                ELSE t
       /\ SubSeq(delete_pile, 1, Len(hist.before.delete_pile)) = hist.before.delete_pile
       /\ RestUntouched

\* the black hole took two alliance tokens and left their markers on a discard
\* pile that was not empty
TokensSwallowed ==
    /\ pc = "returned" /\ hist.phase = "anom_black_hole"
    /\ hist.before.delete_pile # <<>>
    /\ Discarded = <<"aura_back", "aura_back">>

---------------------------------------------------------------------------
(* The time loop *)

\* C23: when a turn in which the current player played the time loop is over and the
\* game goes on, the next turn belongs to that same player
ExtraTurnGranted ==
    (pc = "battle" /\ hist.phase = "deal" /\ hist.played = "anom_time_loop")
    => current = hist.before.current

\* a turn with the time loop is over, the game goes on, and more than one player
\* is waiting in the queue
TurnAfterTimeLoop ==
    /\ pc = "battle" /\ hist.phase = "deal" /\ hist.played = "anom_time_loop"
    /\ \E k \in DOMAIN turn_q : turn_q[k] % num_players # current

---------------------------------------------------------------------------
(* Invalid configurations *)

\* C24: when run_simulations is called with a player count outside 2..5 or with a
\* number of games that is not positive, no game is ever set up or counted and no
\* probabilities are ever returned: the call only ends in an error.
InvalidConfigurationRejected ==
    (num_players \notin PlayerCounts \/ runs <= 0)
        => /\ pc \in {"run_simulations", "ValueError"}
           /\ games_done = 0
           /\ probs = <<>>

---------------------------------------------------------------------------
(* Empty squads *)

\* the zone counts, the alliance tokens and the hand counts are not negative
CountsNotNegative ==
    /\ \A i \in Zones :
         /\ \A c \in PlainSet : areas[i].counts[c] >= 0
         /\ Len(areas[i].blue_values) >= 0
         /\ areas[i].auras >= 0
    /\ \A i \in Zones : \A k \in DOMAIN hands[i] : hands[i][k].cnt >= 0

\* the (zone, colour) squads that hold fewer cards than when the last phase began
Shrunk ==
    {zc \in Zones \X Factions :
        SquadCards(areas[zc[1]], zc[2]) < SquadCards(hist.before.areas[zc[1]], zc[2])}

---------------------------------------------------------------------------
(* Movement or anomaly *)

AnomaliesIn(pile) == Len(SelectSeq(pile, LAMBDA c : c \in AnomalySet))

\* one card of colour c went from zone src to zone dst, and nothing else changed
\* in the zones
OneCardMoved(src, dst, c) ==
    /\ SquadCards(areas[src], c) = SquadCards(hist.before.areas[src], c) - 1
    /\ SquadCards(areas[dst], c) = SquadCards(hist.before.areas[dst], c) + 1
    /\ \A i \in Zones : \A d \in Factions :
            (d # c \/ i \notin {src, dst})
                => SquadCards(areas[i], d) = SquadCards(hist.before.areas[i], d)
    /\ \A i \in Zones : areas[i].auras = hist.before.areas[i].auras
    /\ \A i \in Zones \ {src, dst} : areas[i] = hist.before.areas[i]

\* C26: a Movement-or-Anomaly phase either plays one anomaly, which leaves the current
\* player's hand and becomes the last card of the discard pile, with no change of the
\* zones but the anomaly's own (none for the quantum entanglement, the big bang and
\* the time loop; no squad grows under the black hole; the cards of every colour are
\* as many as before under the wormhole); or it plays none, and then the hands, the
\* deck, the discard pile and the spiral stay as they were and the zones are either
\* unchanged or differ by one card moved from one zone to a different one
MoveOrAnomalyExclusive ==
    hist.phase = "move"
    => IF hist.played # NoneStr
       THEN /\ hist.played \in AnomalySet
            /\ HandGet(hist.before.hands[current], hist.played) > 0
            /\ hands = [hist.before.hands EXCEPT ![current] = HandTake(@, hist.played)]
            /\ HandSize(hands[current]) = HandSize(hist.before.hands[current]) - 1
            /\ Last(delete_pile) = hist.played
            /\ AnomaliesIn(delete_pile) = AnomaliesIn(hist.before.delete_pile) + 1
            /\ hist.played \notin {"anom_black_hole", "anom_wormhole"}
                    => areas = hist.before.areas
            /\ hist.played = "anom_black_hole"
                    => \A i \in Zones : \A t \in Factions \cup {"aura"} :
                            Units(areas[i], t) <= Units(hist.before.areas[i], t)
            /\ hist.played = "anom_wormhole"
                    => /\ \A c \in Factions :
                            BoardCards(areas, c) = BoardCards(hist.before.areas, c)
                       /\ \A i \in Zones : areas[i].auras = hist.before.areas[i].auras
                       /\ delete_pile = Append(hist.before.delete_pile, hist.played)
            /\ hist.played # "anom_quantum_entanglement" => spiral = hist.spiral_before
            /\ hist.played # "anom_big_bang" => deck = hist.before.deck
       ELSE /\ hands = hist.before.hands
            /\ deck = hist.before.deck
            /\ delete_pile = hist.before.delete_pile
            /\ spiral = hist.spiral_before
            /\ \/ areas = hist.before.areas
               \/ \E src \in Zones : \E dst \in Zones \ {src} : \E c \in Factions :
                        OneCardMoved(src, dst, c)
            /\ \A c \in Factions : BoardCards(areas, c) = BoardCards(hist.before.areas, c)

\* a phase in which no anomaly was played and a card was relocated
CardRelocated ==
    /\ hist.phase = "move"
    /\ hist.played = NoneStr
    /\ areas # hist.before.areas

---------------------------------------------------------------------------
(* Reinforcement *)

\* the captain was put on the board in the last phase
Deployed == captain_loc # hist.before.captain_loc

\* C27: a Reinforcement phase leaves the deck, the discard pile and the other players'
\* hands alone and does exactly one of three things: it deploys the captain, which
\* happens only for a red current player whose captain was not on the board and
\* changes no hand and no zone; or it takes one faction card from the current
\* player's hand and adds it to one zone; or it changes nothing
ReinforcementExclusive ==
    hist.phase = "reinforcement"
    => /\ deck = hist.before.deck
       /\ delete_pile = hist.before.delete_pile
       /\ \A i \in Zones \ {current} : hands[i] = hist.before.hands[i]
       /\ IF Deployed
          THEN /\ players[current] = "red"
               /\ hist.before.captain_loc = None
               /\ captain_loc \in Zones
               /\ hands = hist.before.hands
               /\ areas = hist.before.areas
          ELSE \/ hands = hist.before.hands /\ areas = hist.before.areas
               \/ \E card \in HandKeys(hist.before.hands[current]) : \E dst \in Zones :
                    /\ is_faction_card(card)
                    /\ hands[current] = HandTake(hist.before.hands[current], card)
                    /\ HandSize(hands[current]) = HandSize(hist.before.hands[current]) - 1
                    /\ areas = [hist.before.areas EXCEPT ![dst] = place_card_in_area(@, card)]
                    /\ SquadCards(areas[dst], card_color(card))
                            = SquadCards(hist.before.areas[dst], card_color(card)) + 1

\* the captain was deployed in a Reinforcement phase
UnitDeployedAlone ==
    /\ hist.phase = "reinforcement"
    /\ Deployed
    /\ HandSize(hands[current]) > 0

\* a card went from the hand to another player's zone in a Reinforcement phase
CardReinforcedElsewhere ==
    /\ hist.phase = "reinforcement"
    /\ ~Deployed
    /\ \E dst \in Zones \ {current} : areas[dst] # hist.before.areas[dst]

---------------------------------------------------------------------------
(* The hands of the other players *)

\* C30: after a Reinforcement, a Movement-or-Anomaly or an Assault phase the hand of
\* every player other than the current one is what it was when the phase began
OtherHandsUntouched ==
    hist.phase \in {"reinforcement", "move", "attack"}
    => \A i \in Zones \ {current} : hands[i] = hist.before.hands[i]

\* the current player's hand changed in one of these phases while another player
\* held cards
OwnHandChanged ==
    /\ hist.phase \in {"reinforcement", "move"}
    /\ hands[current] # hist.before.hands[current]
    /\ \E i \in Zones \ {current} : hands[i] # <<>>

---------------------------------------------------------------------------
(* The last card in baseline.py and epic_mode.py *)

\* C28: in the baseline and the epic engine, when the game is scored after a player
\* took the last card of the deck in a Recovery, exactly one turn was played after
\* that Recovery, and it was that player's turn
LastCardGivesOneTurn ==
    (hist.scored /\ hist.emptied_by # None)
        => /\ pc = "done"
           /\ Len(hist.post_turns) = 1
           /\ hist.post_turns[1] = hist.emptied_by

\* what the two engines do: a player who takes the last card in another player's
\* turn plays one more turn, a player who takes it in the own turn plays none
LastCardInOwnTurnGivesNone ==
    (hist.scored /\ hist.emptied_by # None)
        => /\ pc = "done"
           /\ hist.post_turns = IF hist.emptied_by = hist.emptied_current
                                THEN <<>> ELSE <<hist.emptied_by>>

---------------------------------------------------------------------------
(* The generators *)

\* what the process-wide generator (the module random, not the game's rng) decides
\* in the current state: whether the wormhole or the quantum entanglement of the hand
\* is played (random.random()), which of the shuffled candidates the Assault takes
\* (random.shuffle), which of the tied factions wins the scoring (random.choice)
ProcessWideOutcomes ==
    IF pc = "move" /\ ~BlackHoleFires
       /\ HandAnoms(hands[current]) \cap {"anom_wormhole", "anom_quantum_entanglement"} # {}
    THEN {"played", "kept"}
    ELSE IF pc = "attack"
    THEN choose_attack_tactical(current, areas, players, spiral, captain_loc)
    ELSE IF pc = "done" /\ hist.scored
    THEN score_game(areas, players, spiral, captain_loc)
    ELSE {}

\* C29: nothing in a game is left to the process-wide generator, so that the
\* player count, the number of games and the seed determine the result: no
\* reachable state offers that generator more than one outcome
SeedDeterminesGame ==
    Cardinality(ProcessWideOutcomes) <= 1

\* the winner of a scored game does not depend on the process-wide generator
SeedDeterminesWinner ==
    (pc = "done" /\ hist.scored)
        => Cardinality(score_game(areas, players, spiral, captain_loc)) <= 1

---------------------------------------------------------------------------
(* The denying Assault *)

\* the Assault just chosen is one of the denying priority: its defender is green in
\* a zone of at least GREEN_NEAR_WIN green cards, or yellow in a zone of exactly one
\* yellow card, or blue in a zone whose blue sum is in BLUE_DANGER_RANGE
DenyingAssault ==
    /\ hist.phase = "attack"
    /\ hist.assault # <<>>
    /\ LET zone == hist.before.areas[current]
           dfn == hist.assault[2]
       IN \/ dfn = "green" /\ zone.counts["green"] >= GREEN_NEAR_WIN
          \/ dfn = "yellow" /\ zone.counts["yellow"] = 1
          \/ dfn = "blue" /\ SumSeq(zone.blue_values) \in BLUE_DANGER_RANGE

\* C31: an Assault of the denying priority is directed at an opponent: its
\* defending colour is not the faction of the current player
DenyTargetsOpponent ==
    DenyingAssault => hist.assault[2] # players[current]

---------------------------------------------------------------------------
(* When an anomaly may be played *)

\* C32: the black hole is played only when, as phase 3 begins, some zone holds at
\* least 4 green cards, or every zone holds a yellow card, or the blue sum of some
\* zone lies in 35..41; the Big Bang is played only when the discard pile holds
\* at least 3 cards of the current player's faction and the deck is not empty
AnomalyGating ==
    hist.phase = "move"
    => LET zones == hist.before.areas
           pile == hist.before.delete_pile
           mine == {k \in DOMAIN pile : card_color(pile[k]) = players[hist.before.current]}
       IN /\ hist.played = "anom_black_hole"
               => \/ \E i \in DOMAIN zones : zones[i].counts["green"] >= 4
                  \/ \A i \in DOMAIN zones : zones[i].counts["yellow"] >= 1
                  \/ \E i \in DOMAIN zones : SumSeq(zones[i].blue_values) \in 35..41
          /\ hist.played = "anom_big_bang"
               => Cardinality(mine) >= 3 /\ hist.before.deck # <<>>

\* the black hole has just been played against a blue sum close to BLUE_GOAL
BlackHoleOnBlueDanger ==
    /\ hist.phase = "move"
    /\ hist.played = "anom_black_hole"
    /\ \E i \in DOMAIN hist.before.areas :
          SumSeq(hist.before.areas[i].blue_values) \in BLUE_DANGER_RANGE

---------------------------------------------------------------------------
(* Who reveals a card in the Clash *)

\* C33: in a Clash every player holding a faction card reveals exactly one faction
\* card of their own hand, which leaves the hand and nothing else does; a player
\* holding no faction card reveals nothing and keeps the hand; no anomaly is revealed
ClashParticipation ==
    hist.phase = "battle"
    => \A i \in DOMAIN hands :
         LET held == hist.before.hands[i]
             card == hist.revealed[i]
         IN IF HandKeys(held) \cap (PlainSet \cup BlueCardSet) # {}
            THEN /\ card \in HandKeys(held) \cap (PlainSet \cup BlueCardSet)
                 /\ HandSize(hands[i]) = HandSize(held) - 1
                 /\ \A c \in HandKeys(held) :
                      HandGet(hands[i], c) = HandGet(held, c) - (IF c = card THEN 1 ELSE 0)
                 /\ HandKeys(hands[i]) \subseteq HandKeys(held)
            ELSE card = NoneStr /\ hands[i] = held

\* a Clash in which one player, holding no card, passes and another reveals a card
ClashWithPass ==
    /\ hist.phase = "battle"
    /\ \E i, j \in DOMAIN hands :
         /\ hist.revealed[i] = NoneStr
         /\ hist.revealed[j] # NoneStr
         /\ HandSize(hands[j]) = HandSize(hist.before.hands[j]) - 1

---------------------------------------------------------------------------
(* Where the special unit is put *)

\* the special unit has just been deployed in Reinforcement
UnitJustDeployed ==
    /\ hist.phase = "reinforcement"
    /\ hist.before.captain_loc = None
    /\ captain_loc # None

\* C34: the special unit is deployed in a zone whose number of red cards, as
\* Reinforcement begins, is the largest of all zones
UnitDeployedWhereRedIsLargest ==
    UnitJustDeployed
    => \A i \in DOMAIN hist.before.areas :
          hist.before.areas[i].counts["red"]
              <= hist.before.areas[captain_loc].counts["red"]

\* as the code has it: the special unit is deployed in the zone of the current player
UnitDeployedAtHome ==
    UnitJustDeployed => captain_loc = hist.before.current

---------------------------------------------------------------------------
(* The turn order after the time loop *)

\* C35: the time loop gives one turn only. When a turn begins that is not the extra
\* turn itself, the queue is the plain rotation again: every player waits in it
\* exactly once, but for the player of a scheduled final turn, who waits once more
RotationRestored ==
    (pc = "battle" /\ hist.phase = "deal" /\ hist.played # "anom_time_loop")
    => \A i \in Zones :
         Cardinality({k \in DOMAIN turn_q : turn_q[k] % num_players = i})
             = 1 + (IF final_enqueued /\ final_player = i THEN 1 ELSE 0)

\* the turn after the time loop is over and the game goes on
ExtraTurnTaken ==
    /\ pc = "battle" /\ hist.phase = "deal" /\ hist.played # "anom_time_loop"
    /\ "anom_time_loop" \in Range(delete_pile)

---------------------------------------------------------------------------
(* How many colours win a Clash *)

\* C36: for every spiral and every non-empty set of revealed colours
\* first_wins_among returns at most one colour, and none when all five colours
\* are revealed or when two colours are revealed of which neither dominates the other
AtMostOneClashWinner ==
    (pc = "returned" /\ hist.phase = "first_wins_among")
    => /\ Cardinality(hist.winners) <= 1
       /\ RevealedColours = Factions => hist.winners = {}
       /\ (/\ Cardinality(RevealedColours) = 2
           /\ \A c, d \in RevealedColours : ~Follows(c, d))
          => hist.winners = {}

\* first_wins_among has returned for two colours that are not neighbours in the spiral
TwoColoursApart ==
    /\ pc = "returned" /\ hist.phase = "first_wins_among"
    /\ Cardinality(RevealedColours) = 2
    /\ \A c, d \in RevealedColours : ~Follows(c, d)
    /\ hist.winners = {}

---------------------------------------------------------------------------
(* No card twice *)

\* how many copies of card c lie in the deck, the hands and the discard pile
CopiesOffBoard(c) ==
    Occurrences(deck, c) + SumOver([i \in Zones |-> HandGet(hands[i], c)], Zones)
    + Occurrences(delete_pile, c)

\* C37: no card is duplicated. In every state of a game the deck, the hands, the
\* zones and the discard pile together hold at most CARDS_PER_COLOR cards of each
\* plain colour, each blue value at most as often as BLUE_VALUES has it, and at
\* most one anomaly (deck, hands and discard pile)
NoCardDuplicated ==
    /\ \A c \in PlainSet :
          CopiesOffBoard(c) + SumOver([i \in Zones |-> areas[i].counts[c]], Zones)
              <= CARDS_PER_COLOR
    /\ \A v \in Range(BLUE_VALUES) :
          CopiesOffBoard(blue_card(v))
          + SumOver([i \in Zones |-> Occurrences(areas[i].blue_values, v)], Zones)
              <= Occurrences(BLUE_VALUES, v)
    /\ SumOver([a \in AnomalySet |-> CopiesOffBoard(a)], AnomalySet) <= 1

\* the Big Bang has just put discarded cards back into the deck
DiscardReturnedToDeck ==
    /\ hist.phase = "move"
    /\ hist.played = "anom_big_bang"
    /\ Len(deck) > Len(hist.before.deck)

---------------------------------------------------------------------------
(* Several instant wins at once *)

\* C38: when more than one instant-win predicate holds where check_instants is
\* called, it names green if green's predicate holds, otherwise yellow (yellow's
\* and blue's then hold)
InstantPriority ==
    (pc = "returned" /\ hist.phase = "check_instants")
    => LET holding == (IF GreenHolds THEN {"green"} ELSE {})
                      \cup (IF YellowHolds THEN {"yellow"} ELSE {})
                      \cup (IF BlueHolds THEN {"blue"} ELSE {})
       IN Cardinality(holding) > 1
          => winner = (IF "green" \in holding THEN "green"
                       ELSE IF "yellow" \in holding THEN "yellow" ELSE "blue")

\* check_instants has returned where yellow's and blue's predicates hold, green's not
YellowBeforeBlue ==
    /\ pc = "returned" /\ hist.phase = "check_instants"
    /\ ~GreenHolds /\ YellowHolds /\ BlueHolds
    /\ winner = "yellow"

---------------------------------------------------------------------------
(* The empty deck *)

\* C39: once the deck of a game is empty it stays empty as long as the game lasts,
\* and the Big Bang is never played on an empty deck
EmptyDeckStaysEmpty ==
    [][/\ (deck = <<>> /\ pc # "done") => deck' = <<>>
       /\ (pc = "move" /\ hist'.played = "anom_big_bang") => deck # <<>>]_vars

\* phase 3 begins with an empty deck for a player who holds the Big Bang while the
\* discard pile holds three cards of that player's faction
BigBangHeldOnEmptyDeck ==
    /\ pc = "move"
    /\ deck = <<>>
    /\ BigBangFiresOnEmptyDeck

---------------------------------------------------------------------------
(* Ties of three and more *)

\* C40: tiebreak_by_spiral returns a faction only for a single candidate or for two
\* candidates of which the returned one dominates the other; for three or more
\* candidates it returns none, and score_game then returns any one of the tied
TiebreakDecidesTwoWayTies ==
    /\ (pc = "returned" /\ hist.phase = "tiebreak_by_spiral")
       => /\ Cardinality(hist.winners) <= 1
          /\ \A f \in hist.winners :
                \/ RevealedColours = {f}
                \/ \E g \in RevealedColours : RevealedColours = {f, g} /\ Follows(f, g)
          /\ Cardinality(RevealedColours) >= 3 => hist.winners = {}
    /\ (Scored /\ Cardinality(Leaders) >= 3) => hist.winners = Leaders

\* score_game has returned one of three or more factions with the same presence,
\* which is not zero
ThreeWayTieScored ==
    /\ Scored
    /\ Cardinality(Leaders) >= 3
    /\ Presence(winner) > 0
    /\ \E c, d \in Leaders : Follows(c, d)

====
